---------------------------- MODULE Spec2Model ----------------------------
(***************************************************************************)
(* A model of obs-browser's BrowserSource (src/obs-browser-source.cpp):    *)
(* the cross-thread task dispatch (ExecuteOnBrowser), the life cycle of    *)
(* the engine object of an instance (Update, Tick, SetShowing,             *)
(* CreateBrowser, DestroyBrowser) and the registry of instances            *)
(* (first_browser, next, p_prev_next under browser_list_mutex).            *)
(*                                                                         *)
(* Threads run the public operations statement by statement; every step    *)
(* below is one access to shared state (a member read or write, a task     *)
(* submission, a lock operation).  The engine thread runs the queued       *)
(* tasks one at a time.                                                    *)
(***************************************************************************)
EXTENDS Integers, Sequences, FiniteSets, TLC

(* ------------------------------ bounds -------------------------------- *)

\* Instances that can exist at once (storage slots for BrowserSource).
NInst == 2

\* Engine objects (CefBrowser) that can exist at once.
MaxObjs == 2

\* Tasks the engine queue can hold at once.
MaxQueue == 2

Insts == 1..NInst
Objs == 1..MaxObjs

\* The threads that call into the instances.  With USE_QT_LOOP "main" is the
\* Qt main thread, which is also the thread that runs the engine's tasks.
Threads == {"main", "gfx"}

\* A null CefRefPtr<CefBrowser>, a null BrowserSource*.
NullObj == 0
NullInst == 0

(* ---------------------- strings as character lists --------------------- *)

RECURSIVE Concat(_)
Concat(ss) == IF ss = <<>> THEN <<>> ELSE Head(ss) \o Concat(Tail(ss))

\* CefURIEncode(text, use_plus = false): everything except alphanumerics and
\* -_.!~*'() becomes %XX.
EscapeChar(c) ==
    CASE c = ":"  -> <<"%", "3", "A">>
      [] c = "/"  -> <<"%", "2", "F">>
      [] c = "\\" -> <<"%", "5", "C">>
      [] c = "%"  -> <<"%", "2", "5">>
      [] c = " "  -> <<"%", "2", "0">>
      [] OTHER    -> <<c>>

CefURIEncode(s) == Concat([k \in 1..Len(s) |-> EscapeChar(s[k])])

\* std::string::npos
npos == 0

\* std::string::find: the first position (from 1) where pat occurs, or npos.
Find(s, pat) ==
    LET hits == {k \in 1..(Len(s) - Len(pat) + 1) :
                     SubSeq(s, k, k + Len(pat) - 1) = pat}
    IN IF hits = {} THEN npos
       ELSE CHOOSE k \in hits : \A j \in hits : k <= j

\* std::string::replace(pos, n, r), for a pos inside the string.
Replace(s, pos, n, r) ==
    SubSeq(s, 1, pos - 1) \o r \o SubSeq(s, pos + n, Len(s))

\* while (s.find(pat) != npos) s.replace(s.find(pat), 3, r);
RECURSIVE ReplaceAll(_, _, _)
ReplaceAll(s, pat, r) ==
    IF Find(s, pat) = npos THEN s
    ELSE ReplaceAll(Replace(s, Find(s, pat), Len(pat), r), pat, r)

ToLower(c) ==
    CASE c = "H" -> "h" [] c = "T" -> "t" [] c = "P" -> "p"
      [] c = "A" -> "a" [] c = "C" -> "c"
      [] OTHER -> c

AbsolutePrefix ==
    <<"h", "t", "t", "p", ":", "/", "/",
      "a", "b", "s", "o", "l", "u", "t", "e", "/">>

FilePrefix3 == <<"f", "i", "l", "e", ":", "/", "/", "/">>
FilePrefix2 == <<"f", "i", "l", "e", ":", "/", "/">>

\* astrcmpi_n(s, "http://absolute/", 16) == 0
HasAbsolutePrefix(s) ==
    /\ Len(s) >= Len(AbsolutePrefix)
    /\ \A k \in 1..Len(AbsolutePrefix) : ToLower(s[k]) = AbsolutePrefix[k]

\* Line 854 on _WIN32: n_url.replace(n_url.find("%3A"), 3, ":") throws
\* std::out_of_range when the encoded path holds no "%3A" (find gives npos).
Throws(raw, w32) ==
    /\ raw.is_local_file
    /\ w32
    /\ Find(CefURIEncode(raw.local_file), <<"%", "3", "A">>) = npos

\* The normalization without the loop of lines 856-857.
NormalizeUrlKeepsBackslash(raw, w32, fscheme) ==
    IF raw.is_local_file
    THEN LET e0 == CefURIEncode(raw.local_file)
             e1 == IF w32
                   THEN Replace(e0, Find(e0, <<"%", "3", "A">>), 3, <<":">>)
                   ELSE e0
             e3 == ReplaceAll(e1, <<"%", "2", "F">>, <<"/">>)
         IN IF ~fscheme THEN AbsolutePrefix \o e3
            ELSE IF w32 THEN FilePrefix3 \o e3
            ELSE FilePrefix2 \o e3
    ELSE raw.url

\* Lines 846-875: the url read and, for a local file, encoded and prefixed
\* (for settings that do not throw).  w32 and fscheme are the build's _WIN32
\* and ENABLE_LOCAL_FILE_URL_SCHEME.
NormalizeUrl(raw, w32, fscheme) ==
    IF raw.is_local_file
    THEN LET e0 == CefURIEncode(raw.local_file)
             e1 == IF w32
                   THEN Replace(e0, Find(e0, <<"%", "3", "A">>), 3, <<":">>)
                   ELSE e0
             e2 == ReplaceAll(e1, <<"%", "5", "C">>, <<"/">>)
             e3 == ReplaceAll(e2, <<"%", "2", "F">>, <<"/">>)
         IN IF ~fscheme THEN AbsolutePrefix \o e3
            ELSE IF w32 THEN FilePrefix3 \o e3
            ELSE FilePrefix2 \o e3
    ELSE raw.url

\* Lines 838-884: the normalized configuration of settings that do not throw.
Normalize(raw, w32, fscheme) ==
    LET u == NormalizeUrl(raw, w32, fscheme)
        abs == fscheme /\ HasAbsolutePrefix(u)
    IN [is_local   |-> IF abs THEN TRUE ELSE raw.is_local_file,
        width      |-> raw.width,
        height     |-> raw.height,
        fps_custom |-> raw.fps_custom,
        fps        |-> raw.fps,
        shutdown   |-> raw.shutdown,
        restart    |-> raw.restart_when_active,
        css        |-> raw.css,
        url        |-> IF abs
                       THEN FilePrefix3 \o
                            SubSeq(u, Len(AbsolutePrefix) + 1, Len(u))
                       ELSE u,
        reroute    |-> raw.reroute_audio]

(* ------------------------------- inputs -------------------------------- *)

\* The settings object the host hands to Update (the fields read at lines
\* 838-848).
BaseSettings ==
    [is_local_file |-> FALSE,
     local_file |-> <<"/", "a">>,
     url |-> <<"a">>,
     width |-> 1, height |-> 1, fps_custom |-> FALSE, fps |-> 1,
     shutdown |-> FALSE, restart_when_active |-> FALSE,
     css |-> <<>>, reroute_audio |-> FALSE]

\* The settings the model's host chooses from: a plain URL, the same with
\* shutdown-when-hidden, a local file, and the http://absolute/ spelling of
\* that local file.
SettingsSet ==
    {BaseSettings,
     [BaseSettings EXCEPT !.shutdown = TRUE],
     [BaseSettings EXCEPT !.is_local_file = TRUE],
     [BaseSettings EXCEPT !.url = AbsolutePrefix \o <<"a">>]}

\* Local-file paths: C:\clip.webm, C:\a\b, C:/a, D:\a b, and without a drive
\* colon clip, the empty path, \\s\a and /a.
ClipPath == <<"C", ":", "\\", "c", "l", "i", "p", ".", "w", "e", "b", "m">>

LocalPaths ==
    {ClipPath,
     <<"C", ":", "\\", "a", "\\", "b">>,
     <<"C", ":", "/", "a">>,
     <<"D", ":", "\\", "a", " ", "b">>,
     <<"c", "l", "i", "p">>,
     <<>>,
     <<"\\", "\\", "s", "\\", "a">>,
     <<"/", "a">>}

\* The settings of a local-file source for each of these paths, and a URL.
PathSettings ==
    {[BaseSettings EXCEPT !.is_local_file = TRUE, !.local_file = path] :
         path \in LocalPaths}
    \cup {BaseSettings}

\* Two settings that differ in every field the creation task reads.
SnapshotSettings ==
    {BaseSettings,
     [BaseSettings EXCEPT !.url = <<"b">>, !.width = 2, !.height = 2,
                          !.fps = 2, !.reroute_audio = TRUE]}

(* ------------- windows-keycode.h, KeyboardCodeFromXKeysym -------------- *)

VKEY_UNKNOWN == 0
VKEY_WLAN == 151
VKEY_POWER == 152
VKEY_BRIGHTNESS_DOWN == 216
VKEY_BRIGHTNESS_UP == 217
VKEY_KBD_BRIGHTNESS_DOWN == 218
VKEY_KBD_BRIGHTNESS_UP == 232
VKEY_ALTGR == 225
VKEY_COMPOSE == 230
VKEY_BACK == 8
VKEY_TAB == 9
VKEY_CLEAR == 12
VKEY_RETURN == 13
VKEY_SHIFT == 16
VKEY_CONTROL == 17
VKEY_MENU == 18
VKEY_PAUSE == 19
VKEY_CAPITAL == 20
VKEY_KANA == 21
VKEY_HANGUL == 21
VKEY_HANJA == 25
VKEY_KANJI == 25
VKEY_ESCAPE == 27
VKEY_CONVERT == 28
VKEY_NONCONVERT == 29
VKEY_SPACE == 32
VKEY_PRIOR == 33
VKEY_NEXT == 34
VKEY_END == 35
VKEY_HOME == 36
VKEY_LEFT == 37
VKEY_UP == 38
VKEY_RIGHT == 39
VKEY_DOWN == 40
VKEY_SELECT == 41
VKEY_PRINT == 42
VKEY_EXECUTE == 43
VKEY_INSERT == 45
VKEY_DELETE == 46
VKEY_HELP == 47
VKEY_0 == 48
VKEY_1 == 49
VKEY_2 == 50
VKEY_3 == 51
VKEY_4 == 52
VKEY_5 == 53
VKEY_6 == 54
VKEY_7 == 55
VKEY_8 == 56
VKEY_9 == 57
VKEY_A == 65
VKEY_B == 66
VKEY_C == 67
VKEY_D == 68
VKEY_E == 69
VKEY_F == 70
VKEY_G == 71
VKEY_H == 72
VKEY_I == 73
VKEY_J == 74
VKEY_K == 75
VKEY_L == 76
VKEY_M == 77
VKEY_N == 78
VKEY_O == 79
VKEY_P == 80
VKEY_Q == 81
VKEY_R == 82
VKEY_S == 83
VKEY_T == 84
VKEY_U == 85
VKEY_V == 86
VKEY_W == 87
VKEY_X == 88
VKEY_Y == 89
VKEY_Z == 90
VKEY_LWIN == 91
VKEY_RWIN == 92
VKEY_APPS == 93
VKEY_NUMPAD0 == 96
VKEY_MULTIPLY == 106
VKEY_ADD == 107
VKEY_SEPARATOR == 108
VKEY_SUBTRACT == 109
VKEY_DECIMAL == 110
VKEY_DIVIDE == 111
VKEY_F1 == 112
VKEY_F13 == 124
VKEY_F14 == 125
VKEY_F15 == 126
VKEY_F16 == 127
VKEY_F17 == 128
VKEY_F18 == 129
VKEY_NUMLOCK == 144
VKEY_SCROLL == 145
VKEY_BROWSER_BACK == 166
VKEY_BROWSER_FORWARD == 167
VKEY_BROWSER_REFRESH == 168
VKEY_BROWSER_STOP == 169
VKEY_BROWSER_SEARCH == 170
VKEY_BROWSER_FAVORITES == 171
VKEY_BROWSER_HOME == 172
VKEY_VOLUME_MUTE == 173
VKEY_VOLUME_DOWN == 174
VKEY_VOLUME_UP == 175
VKEY_MEDIA_NEXT_TRACK == 176
VKEY_MEDIA_PREV_TRACK == 177
VKEY_MEDIA_STOP == 178
VKEY_MEDIA_PLAY_PAUSE == 179
VKEY_MEDIA_LAUNCH_MAIL == 180
VKEY_MEDIA_LAUNCH_APP1 == 182
VKEY_MEDIA_LAUNCH_APP2 == 183
VKEY_OEM_1 == 186
VKEY_OEM_PLUS == 187
VKEY_OEM_COMMA == 188
VKEY_OEM_MINUS == 189
VKEY_OEM_PERIOD == 190
VKEY_OEM_2 == 191
VKEY_OEM_3 == 192
VKEY_OEM_4 == 219
VKEY_OEM_5 == 220
VKEY_OEM_6 == 221
VKEY_OEM_7 == 222
VKEY_OEM_8 == 223
VKEY_OEM_102 == 226

\* keysym - first, for a keysym of a run of consecutive key symbols that
\* starts with first (lines 455, 488, 604, 609).
Offset(keysym, run) ==
    (CHOOSE k \in 1..Len(run) : run[k] = keysym) - 1

\* The key symbols with a case label in the switch of lines 304-699.
MappedKeysyms ==
    {"XK_BackSpace", "XK_Delete", "XK_KP_Delete", "XK_Tab", "XK_KP_Tab",
     "XK_ISO_Left_Tab", "XK_3270_BackTab", "XK_Linefeed", "XK_Return",
     "XK_KP_Enter", "XK_ISO_Enter", "XK_Clear", "XK_KP_Begin", "XK_KP_Space",
     "XK_space", "XK_Home", "XK_KP_Home", "XK_End", "XK_KP_End",
     "XK_Page_Up", "XK_KP_Page_Up", "XK_Page_Down", "XK_KP_Page_Down",
     "XK_Left", "XK_KP_Left", "XK_Right", "XK_KP_Right", "XK_Down",
     "XK_KP_Down", "XK_Up", "XK_KP_Up", "XK_Escape", "XK_Kana_Lock",
     "XK_Kana_Shift", "XK_Hangul", "XK_Hangul_Hanja", "XK_Kanji",
     "XK_Henkan", "XK_Muhenkan", "XK_A", "XK_a", "XK_B", "XK_b", "XK_C",
     "XK_c", "XK_D", "XK_d", "XK_E", "XK_e", "XK_F", "XK_f", "XK_G", "XK_g",
     "XK_H", "XK_h", "XK_I", "XK_i", "XK_J", "XK_j", "XK_K", "XK_k", "XK_L",
     "XK_l", "XK_M", "XK_m", "XK_N", "XK_n", "XK_O", "XK_o", "XK_P", "XK_p",
     "XK_Q", "XK_q", "XK_R", "XK_r", "XK_S", "XK_s", "XK_T", "XK_t", "XK_U",
     "XK_u", "XK_V", "XK_v", "XK_W", "XK_w", "XK_X", "XK_x", "XK_Y", "XK_y",
     "XK_Z", "XK_z", "XK_0", "XK_1", "XK_2", "XK_3", "XK_4", "XK_5", "XK_6",
     "XK_7", "XK_8", "XK_9", "XK_parenright", "XK_exclam", "XK_at",
     "XK_numbersign", "XK_dollar", "XK_percent", "XK_asciicircum",
     "XK_ampersand", "XK_asterisk", "XK_parenleft", "XK_KP_0", "XK_KP_1",
     "XK_KP_2", "XK_KP_3", "XK_KP_4", "XK_KP_5", "XK_KP_6", "XK_KP_7",
     "XK_KP_8", "XK_KP_9", "XK_multiply", "XK_KP_Multiply", "XK_KP_Add",
     "XK_KP_Separator", "XK_KP_Subtract", "XK_KP_Decimal", "XK_KP_Divide",
     "XK_KP_Equal", "XK_equal", "XK_plus", "XK_comma", "XK_less", "XK_minus",
     "XK_underscore", "XK_greater", "XK_period", "XK_colon", "XK_semicolon",
     "XK_question", "XK_slash", "XK_asciitilde", "XK_quoteleft",
     "XK_bracketleft", "XK_braceleft", "XK_backslash", "XK_bar",
     "XK_bracketright", "XK_braceright", "XK_quoteright", "XK_quotedbl",
     "XK_ISO_Level5_Shift", "XK_Shift_L", "XK_Shift_R", "XK_Control_L",
     "XK_Control_R", "XK_Meta_L", "XK_Meta_R", "XK_Alt_L", "XK_Alt_R",
     "XK_ISO_Level3_Shift", "XK_Multi_key", "XK_Pause", "XK_Caps_Lock",
     "XK_Num_Lock", "XK_Scroll_Lock", "XK_Select", "XK_Print", "XK_Execute",
     "XK_Insert", "XK_KP_Insert", "XK_Help", "XK_Super_L", "XK_Super_R",
     "XK_Menu", "XK_F1", "XK_F2", "XK_F3", "XK_F4", "XK_F5", "XK_F6",
     "XK_F7", "XK_F8", "XK_F9", "XK_F10", "XK_F11", "XK_F12", "XK_F13",
     "XK_F14", "XK_F15", "XK_F16", "XK_F17", "XK_F18", "XK_F19", "XK_F20",
     "XK_F21", "XK_F22", "XK_F23", "XK_F24", "XK_KP_F1", "XK_KP_F2",
     "XK_KP_F3", "XK_KP_F4", "XK_guillemotleft", "XK_guillemotright",
     "XK_degree", "XK_ugrave", "XK_Ugrave", "XK_brokenbar", "XF86XK_Tools",
     "XF86XK_Launch5", "XF86XK_Launch6", "XF86XK_Launch7", "XF86XK_Launch8",
     "XF86XK_Launch9", "XF86XK_Refresh", "XF86XK_History", "XF86XK_OpenURL",
     "XF86XK_AddFavorite", "XF86XK_Go", "XF86XK_ZoomIn", "XF86XK_ZoomOut",
     "XF86XK_Back", "XF86XK_Forward", "XF86XK_Reload", "XF86XK_Stop",
     "XF86XK_Search", "XF86XK_Favorites", "XF86XK_HomePage",
     "XF86XK_AudioMute", "XF86XK_AudioLowerVolume",
     "XF86XK_AudioRaiseVolume", "XF86XK_AudioNext", "XF86XK_AudioPrev",
     "XF86XK_AudioStop", "XF86XK_AudioPlay", "XF86XK_Mail", "XF86XK_LaunchA",
     "XF86XK_LaunchB", "XF86XK_Calculator", "XF86XK_WLAN", "XF86XK_PowerOff",
     "XF86XK_MonBrightnessDown", "XF86XK_MonBrightnessUp",
     "XF86XK_KbdBrightnessDown", "XF86XK_KbdBrightnessUp"}

\* The translation with the space key's code for every symbol.
KeyboardCodeAlwaysSpace(keysym) == VKEY_SPACE

\* uint32_t KeyboardCodeFromXKeysym(unsigned int keysym), lines 303-701: the
\* switch, and return VKEY_UNKNOWN (line 700) for a symbol with no label.
KeyboardCodeFromXKeysym(keysym) ==
    CASE keysym \in {"XK_BackSpace"} -> VKEY_BACK
      [] keysym \in {"XK_Delete", "XK_KP_Delete"} -> VKEY_DELETE
      [] keysym \in {"XK_Tab", "XK_KP_Tab", "XK_ISO_Left_Tab", "XK_3270_BackTab"} -> VKEY_TAB
      [] keysym \in {"XK_Linefeed", "XK_Return", "XK_KP_Enter", "XK_ISO_Enter"} -> VKEY_RETURN
      [] keysym \in {"XK_Clear", "XK_KP_Begin"} -> VKEY_CLEAR
      [] keysym \in {"XK_KP_Space", "XK_space"} -> VKEY_SPACE
      [] keysym \in {"XK_Home", "XK_KP_Home"} -> VKEY_HOME
      [] keysym \in {"XK_End", "XK_KP_End"} -> VKEY_END
      [] keysym \in {"XK_Page_Up", "XK_KP_Page_Up"} -> VKEY_PRIOR
      [] keysym \in {"XK_Page_Down", "XK_KP_Page_Down"} -> VKEY_NEXT
      [] keysym \in {"XK_Left", "XK_KP_Left"} -> VKEY_LEFT
      [] keysym \in {"XK_Right", "XK_KP_Right"} -> VKEY_RIGHT
      [] keysym \in {"XK_Down", "XK_KP_Down"} -> VKEY_DOWN
      [] keysym \in {"XK_Up", "XK_KP_Up"} -> VKEY_UP
      [] keysym \in {"XK_Escape"} -> VKEY_ESCAPE
      [] keysym \in {"XK_Kana_Lock", "XK_Kana_Shift"} -> VKEY_KANA
      [] keysym \in {"XK_Hangul"} -> VKEY_HANGUL
      [] keysym \in {"XK_Hangul_Hanja"} -> VKEY_HANJA
      [] keysym \in {"XK_Kanji"} -> VKEY_KANJI
      [] keysym \in {"XK_Henkan"} -> VKEY_CONVERT
      [] keysym \in {"XK_Muhenkan"} -> VKEY_NONCONVERT
      [] keysym \in {"XK_A", "XK_a"} -> VKEY_A
      [] keysym \in {"XK_B", "XK_b"} -> VKEY_B
      [] keysym \in {"XK_C", "XK_c"} -> VKEY_C
      [] keysym \in {"XK_D", "XK_d"} -> VKEY_D
      [] keysym \in {"XK_E", "XK_e"} -> VKEY_E
      [] keysym \in {"XK_F", "XK_f"} -> VKEY_F
      [] keysym \in {"XK_G", "XK_g"} -> VKEY_G
      [] keysym \in {"XK_H", "XK_h"} -> VKEY_H
      [] keysym \in {"XK_I", "XK_i"} -> VKEY_I
      [] keysym \in {"XK_J", "XK_j"} -> VKEY_J
      [] keysym \in {"XK_K", "XK_k"} -> VKEY_K
      [] keysym \in {"XK_L", "XK_l"} -> VKEY_L
      [] keysym \in {"XK_M", "XK_m"} -> VKEY_M
      [] keysym \in {"XK_N", "XK_n"} -> VKEY_N
      [] keysym \in {"XK_O", "XK_o"} -> VKEY_O
      [] keysym \in {"XK_P", "XK_p"} -> VKEY_P
      [] keysym \in {"XK_Q", "XK_q"} -> VKEY_Q
      [] keysym \in {"XK_R", "XK_r"} -> VKEY_R
      [] keysym \in {"XK_S", "XK_s"} -> VKEY_S
      [] keysym \in {"XK_T", "XK_t"} -> VKEY_T
      [] keysym \in {"XK_U", "XK_u"} -> VKEY_U
      [] keysym \in {"XK_V", "XK_v"} -> VKEY_V
      [] keysym \in {"XK_W", "XK_w"} -> VKEY_W
      [] keysym \in {"XK_X", "XK_x"} -> VKEY_X
      [] keysym \in {"XK_Y", "XK_y"} -> VKEY_Y
      [] keysym \in {"XK_Z", "XK_z"} -> VKEY_Z
      [] keysym \in
             {"XK_0", "XK_1", "XK_2", "XK_3", "XK_4", "XK_5", "XK_6", "XK_7",
              "XK_8", "XK_9"}
             -> VKEY_0 + Offset(keysym, <<"XK_0", "XK_1", "XK_2", "XK_3", "XK_4", "XK_5", "XK_6", "XK_7", "XK_8", "XK_9">>)
      [] keysym \in {"XK_parenright"} -> VKEY_0
      [] keysym \in {"XK_exclam"} -> VKEY_1
      [] keysym \in {"XK_at"} -> VKEY_2
      [] keysym \in {"XK_numbersign"} -> VKEY_3
      [] keysym \in {"XK_dollar"} -> VKEY_4
      [] keysym \in {"XK_percent"} -> VKEY_5
      [] keysym \in {"XK_asciicircum"} -> VKEY_6
      [] keysym \in {"XK_ampersand"} -> VKEY_7
      [] keysym \in {"XK_asterisk"} -> VKEY_8
      [] keysym \in {"XK_parenleft"} -> VKEY_9
      [] keysym \in
             {"XK_KP_0", "XK_KP_1", "XK_KP_2", "XK_KP_3", "XK_KP_4",
              "XK_KP_5", "XK_KP_6", "XK_KP_7", "XK_KP_8", "XK_KP_9"}
             -> VKEY_NUMPAD0 + Offset(keysym, <<"XK_KP_0", "XK_KP_1", "XK_KP_2", "XK_KP_3", "XK_KP_4", "XK_KP_5", "XK_KP_6", "XK_KP_7", "XK_KP_8", "XK_KP_9">>)
      [] keysym \in {"XK_multiply", "XK_KP_Multiply"} -> VKEY_MULTIPLY
      [] keysym \in {"XK_KP_Add"} -> VKEY_ADD
      [] keysym \in {"XK_KP_Separator"} -> VKEY_SEPARATOR
      [] keysym \in {"XK_KP_Subtract"} -> VKEY_SUBTRACT
      [] keysym \in {"XK_KP_Decimal"} -> VKEY_DECIMAL
      [] keysym \in {"XK_KP_Divide"} -> VKEY_DIVIDE
      [] keysym \in {"XK_KP_Equal", "XK_equal", "XK_plus"} -> VKEY_OEM_PLUS
      [] keysym \in {"XK_comma", "XK_less"} -> VKEY_OEM_COMMA
      [] keysym \in {"XK_minus", "XK_underscore"} -> VKEY_OEM_MINUS
      [] keysym \in {"XK_greater", "XK_period"} -> VKEY_OEM_PERIOD
      [] keysym \in {"XK_colon", "XK_semicolon"} -> VKEY_OEM_1
      [] keysym \in {"XK_question", "XK_slash"} -> VKEY_OEM_2
      [] keysym \in {"XK_asciitilde", "XK_quoteleft"} -> VKEY_OEM_3
      [] keysym \in {"XK_bracketleft", "XK_braceleft"} -> VKEY_OEM_4
      [] keysym \in {"XK_backslash", "XK_bar"} -> VKEY_OEM_5
      [] keysym \in {"XK_bracketright", "XK_braceright"} -> VKEY_OEM_6
      [] keysym \in {"XK_quoteright", "XK_quotedbl"} -> VKEY_OEM_7
      [] keysym \in {"XK_ISO_Level5_Shift"} -> VKEY_OEM_8
      [] keysym \in {"XK_Shift_L", "XK_Shift_R"} -> VKEY_SHIFT
      [] keysym \in {"XK_Control_L", "XK_Control_R"} -> VKEY_CONTROL
      [] keysym \in {"XK_Meta_L", "XK_Meta_R", "XK_Alt_L", "XK_Alt_R"} -> VKEY_MENU
      [] keysym \in {"XK_ISO_Level3_Shift"} -> VKEY_ALTGR
      [] keysym \in {"XK_Multi_key"} -> VKEY_COMPOSE
      [] keysym \in {"XK_Pause"} -> VKEY_PAUSE
      [] keysym \in {"XK_Caps_Lock"} -> VKEY_CAPITAL
      [] keysym \in {"XK_Num_Lock"} -> VKEY_NUMLOCK
      [] keysym \in {"XK_Scroll_Lock"} -> VKEY_SCROLL
      [] keysym \in {"XK_Select"} -> VKEY_SELECT
      [] keysym \in {"XK_Print"} -> VKEY_PRINT
      [] keysym \in {"XK_Execute"} -> VKEY_EXECUTE
      [] keysym \in {"XK_Insert", "XK_KP_Insert"} -> VKEY_INSERT
      [] keysym \in {"XK_Help"} -> VKEY_HELP
      [] keysym \in {"XK_Super_L"} -> VKEY_LWIN
      [] keysym \in {"XK_Super_R"} -> VKEY_RWIN
      [] keysym \in {"XK_Menu"} -> VKEY_APPS
      [] keysym \in
             {"XK_F1", "XK_F2", "XK_F3", "XK_F4", "XK_F5", "XK_F6", "XK_F7",
              "XK_F8", "XK_F9", "XK_F10", "XK_F11", "XK_F12", "XK_F13",
              "XK_F14", "XK_F15", "XK_F16", "XK_F17", "XK_F18", "XK_F19",
              "XK_F20", "XK_F21", "XK_F22", "XK_F23", "XK_F24"}
             -> VKEY_F1 + Offset(keysym, <<"XK_F1", "XK_F2", "XK_F3", "XK_F4", "XK_F5", "XK_F6", "XK_F7", "XK_F8", "XK_F9", "XK_F10", "XK_F11", "XK_F12", "XK_F13", "XK_F14", "XK_F15", "XK_F16", "XK_F17", "XK_F18", "XK_F19", "XK_F20", "XK_F21", "XK_F22", "XK_F23", "XK_F24">>)
      [] keysym \in
             {"XK_KP_F1", "XK_KP_F2", "XK_KP_F3", "XK_KP_F4"}
             -> VKEY_F1 + Offset(keysym, <<"XK_KP_F1", "XK_KP_F2", "XK_KP_F3", "XK_KP_F4">>)
      [] keysym \in
             {"XK_guillemotleft", "XK_guillemotright", "XK_degree",
              "XK_ugrave", "XK_Ugrave", "XK_brokenbar"}
             -> VKEY_OEM_102
      [] keysym \in {"XF86XK_Tools"} -> VKEY_F13
      [] keysym \in {"XF86XK_Launch5"} -> VKEY_F14
      [] keysym \in {"XF86XK_Launch6"} -> VKEY_F15
      [] keysym \in {"XF86XK_Launch7"} -> VKEY_F16
      [] keysym \in {"XF86XK_Launch8"} -> VKEY_F17
      [] keysym \in {"XF86XK_Launch9"} -> VKEY_F18
      [] keysym \in
             {"XF86XK_Refresh", "XF86XK_History", "XF86XK_OpenURL",
              "XF86XK_AddFavorite", "XF86XK_Go", "XF86XK_ZoomIn",
              "XF86XK_ZoomOut"}
             -> VKEY_UNKNOWN
      [] keysym \in {"XF86XK_Back"} -> VKEY_BROWSER_BACK
      [] keysym \in {"XF86XK_Forward"} -> VKEY_BROWSER_FORWARD
      [] keysym \in {"XF86XK_Reload"} -> VKEY_BROWSER_REFRESH
      [] keysym \in {"XF86XK_Stop"} -> VKEY_BROWSER_STOP
      [] keysym \in {"XF86XK_Search"} -> VKEY_BROWSER_SEARCH
      [] keysym \in {"XF86XK_Favorites"} -> VKEY_BROWSER_FAVORITES
      [] keysym \in {"XF86XK_HomePage"} -> VKEY_BROWSER_HOME
      [] keysym \in {"XF86XK_AudioMute"} -> VKEY_VOLUME_MUTE
      [] keysym \in {"XF86XK_AudioLowerVolume"} -> VKEY_VOLUME_DOWN
      [] keysym \in {"XF86XK_AudioRaiseVolume"} -> VKEY_VOLUME_UP
      [] keysym \in {"XF86XK_AudioNext"} -> VKEY_MEDIA_NEXT_TRACK
      [] keysym \in {"XF86XK_AudioPrev"} -> VKEY_MEDIA_PREV_TRACK
      [] keysym \in {"XF86XK_AudioStop"} -> VKEY_MEDIA_STOP
      [] keysym \in {"XF86XK_AudioPlay"} -> VKEY_MEDIA_PLAY_PAUSE
      [] keysym \in {"XF86XK_Mail"} -> VKEY_MEDIA_LAUNCH_MAIL
      [] keysym \in {"XF86XK_LaunchA"} -> VKEY_MEDIA_LAUNCH_APP1
      [] keysym \in {"XF86XK_LaunchB", "XF86XK_Calculator"} -> VKEY_MEDIA_LAUNCH_APP2
      [] keysym \in {"XF86XK_WLAN"} -> VKEY_WLAN
      [] keysym \in {"XF86XK_PowerOff"} -> VKEY_POWER
      [] keysym \in {"XF86XK_MonBrightnessDown"} -> VKEY_BRIGHTNESS_DOWN
      [] keysym \in {"XF86XK_MonBrightnessUp"} -> VKEY_BRIGHTNESS_UP
      [] keysym \in {"XF86XK_KbdBrightnessDown"} -> VKEY_KBD_BRIGHTNESS_DOWN
      [] keysym \in {"XF86XK_KbdBrightnessUp"} -> VKEY_KBD_BRIGHTNESS_UP
      [] OTHER -> VKEY_UNKNOWN


(* -------------------------------- state -------------------------------- *)

VARIABLES
    qtLoop,          \* the build defines USE_QT_LOOP
    win32,           \* the build defines _WIN32
    fileScheme,      \* the build has ENABLE_LOCAL_FILE_URL_SCHEME
    linux,           \* the build defines __LINUX__
    life,            \* per slot: "free", "ctor", "live", "dtor"
    cfg,             \* per instance: is_local, width, ..., url, reroute_audio
    cefBrowser,      \* per instance: the engine handle, or NullObj
    create_browser,  \* per instance
    is_showing,      \* per instance
    first_update,    \* per instance
    next,            \* per instance: BrowserSource *next
    p_prev_next,     \* per instance: the slot **p_prev_next points at
    first_browser,   \* head of the registry list
    mtx,             \* owner of browser_list_mutex, or "none"
    queue,           \* the engine thread's task queue (QueueCEFTask)
    obj,             \* per engine object: "free", "live", "closed"
    pc,              \* per thread: where it is inside an operation
    loc,             \* per thread: the locals of the operation it runs
    crashed,         \* an exception left Update, or a null handle was used
    lastNorm,        \* per instance: the normalized configuration of the
                     \* latest Update(settings) call (history)
    ev,              \* what the last step did (history, read by the claims)
    delivered,       \* the key events the last key closure sent, and to what
    vkey,            \* a key symbol and the code it was translated to
    vis              \* per engine object: the visibility last sent to it
                     \* (history, recorded from InitVisibility only)

vars == <<qtLoop, win32, fileScheme, linux, life, cfg, cefBrowser,
          create_browser, is_showing, first_update, next, p_prev_next,
          first_browser, mtx, queue, obj, pc, loc, crashed, lastNorm, ev,
          delivered, vkey, vis>>

build == <<qtLoop, win32, fileScheme, linux>>

keys == <<delivered, vkey, vis>>

registry == <<next, p_prev_next, first_browser>>

\* The members' initializers (obs-browser-source.hpp is not among the
\* sources; the constructor sets none of them).
InitCfg ==
    [is_local |-> FALSE, width |-> 0, height |-> 0, fps_custom |-> FALSE,
     fps |-> 0, shutdown |-> FALSE, restart |-> FALSE, css |-> <<>>,
     url |-> <<>>, reroute |-> FALSE]

\* The history's value before the first Update(settings) call.
NoUpdate == [InitCfg EXCEPT !.width = -1]

\* p_prev_next = &first_browser is written FirstSlot; p_prev_next = &j->next
\* is written j; an instance outside the list has NoSlot.
FirstSlot == 0
NoSlot == -1

IdleLoc ==
    [i |-> NullInst, b |-> NullObj, fn |-> "none", ret |-> "idle",
     ret2 |-> "idle", v |-> FALSE, n |-> <<>>, seen |-> <<>>,
     arg |-> <<>>, absent |-> FALSE, js |-> <<>>]

\* No key closure has run; no key symbol has been translated.
NoDelivery == [o |-> NullObj, arg |-> <<>>, events |-> <<>>]

NoKey == [keysym |-> "none", code |-> -1]

\* The visibility sent to the engine objects is not recorded.
NoVisibility == <<>>

\* The state every specification starts from, but for the instances.
InitCommon ==
    /\ cfg = [i \in Insts |-> InitCfg]
    /\ cefBrowser = [i \in Insts |-> NullObj]
    /\ create_browser = [i \in Insts |-> FALSE]
    /\ is_showing = [i \in Insts |-> FALSE]
    /\ first_update = [i \in Insts |-> TRUE]
    /\ mtx = "none"
    /\ queue = <<>>
    /\ obj = [o \in Objs |-> "free"]
    /\ pc = [t \in Threads |-> "idle"]
    /\ loc = [t \in Threads |-> IdleLoc]
    /\ crashed = FALSE
    /\ lastNorm = [i \in Insts |-> NoUpdate]
    /\ ev = "none"
    /\ delivered = NoDelivery
    /\ vkey = NoKey

\* One instance, constructed and registered (lines 76-88 have run).
Init ==
    /\ InitCommon
    /\ vis = NoVisibility
    /\ qtLoop \in BOOLEAN
    /\ win32 = FALSE
    /\ fileScheme = TRUE
    /\ linux = TRUE
    /\ life = [i \in Insts |-> IF i = 1 THEN "live" ELSE "free"]
    /\ next = [i \in Insts |-> NullInst]
    /\ p_prev_next = [i \in Insts |-> IF i = 1 THEN FirstSlot ELSE NoSlot]
    /\ first_browser = 1

(* ------------------------------ helpers -------------------------------- *)

Goto(t, p) == pc' = [pc EXCEPT ![t] = p]

Return(t) ==
    /\ pc' = [pc EXCEPT ![t] = "idle"]
    /\ loc' = [loc EXCEPT ![t] = IdleLoc]

Task(k, i, b, cap, t, fn) ==
    [k |-> k, i |-> i, b |-> b, cap |-> cap, t |-> t, fn |-> fn, arg |-> <<>>]

\* A queue that puts the new task first.
QueueCEFTaskFirst(q, task) == <<task>> \o q

\* extern bool QueueCEFTask(std::function<void()> task): the task is appended
\* to the engine thread's queue and true is returned, or it is refused.
QueueCEFTask(q, task) == Append(q, task)

\* QueueBrowserTask(browser, func): queues func(browser) for the Qt loop.
QueueBrowserTask(q, b, cap, fn, arg) ==
    Append(q, [Task("async", NullInst, b, cap, "none", fn) EXCEPT !.arg = arg])

\* Room in the model's queue (the model's bound, not the program's).
HasRoom == Len(queue) < MaxQueue

\* obs_source_showing(source): the host's view of the source's visibility,
\* which is what it last passed to SetShowing.
\* A host that reports every source as hidden.
NeverShowing(i) == FALSE

obs_source_showing(i) == is_showing[i]

\* An engine object some handle, captured reference or queued task names.
Referenced(o) ==
    \/ \E i \in Insts : cefBrowser[i] = o
    \/ \E t \in Threads : pc[t] # "idle" /\ loc[t].b = o
    \/ \E k \in 1..Len(queue) : queue[k].b = o

\* Identifiers a new engine object can take: never used, or of an object
\* that no reference names any more (closed, or left unclosed for good).
FreeIds == {o \in Objs : obj[o] = "free" \/ ~Referenced(o)}

CreatesQueued == Cardinality({k \in 1..Len(queue) : queue[k].k = "create"})

(* --------------------- ExecuteOnBrowser (101-132) ---------------------- *)

\* The test of lines 104-109 left out.
NeverOnEngineThread(t) == FALSE

\* Lines 104-105: QThread::currentThread() == qApp->thread(), compiled in
\* only with USE_QT_LOOP.
OnEngineThread(t) == qtLoop /\ t = "main"

\* A teardown closure that leaves the object open.
RunFuncKeepsOpen(fn, o) == obj

\* What running func(o) does to the engine objects: the teardown closure of
\* DestroyBrowser (201-217) detaches the client, hides and closes the
\* object; every other closure sends it an event or a message.
RunFunc(fn, o) ==
    IF fn = "close" /\ o # NullObj THEN [obj EXCEPT ![o] = "closed"] ELSE obj

\* Line 123 (or the bsw->ExecuteOnBrowser(func, true) under the registry
\* lock, lines 952-957): CefRefPtr<CefBrowser> browser = cefBrowser.
AsyncCapture(t) ==
    /\ ~crashed
    /\ pc[t] \in {"ea_cap", "js_cap"}
    /\ IF pc[t] = "js_cap"
       THEN /\ mtx = "none"
            /\ mtx' = t
            /\ Goto(t, "js_enq")
       ELSE /\ UNCHANGED mtx
            /\ Goto(t, "ea_enq")
    /\ loc' = [loc EXCEPT ![t].b = cefBrowser[loc[t].i]]
    /\ ev' = "none"
    /\ UNCHANGED <<build, keys, lastNorm, life, cfg, cefBrowser, create_browser, is_showing,
                   first_update, registry, queue, obj, crashed>>

\* The values func has captured: those of the jsEvent closure (975-983)
\* when the submission is DispatchJSEvent's, else those of the caller's
\* closure.
FuncArg(t) == IF pc[t] = "ea_enq" THEN loc[t].arg ELSE loc[t].js

\* Lines 125-129: with USE_QT_LOOP, QueueBrowserTask(cefBrowser, func) is
\* handed the member cefBrowser, read again; otherwise the queued closure
\* captures the local browser.
SubmitFunc(t) ==
    IF qtLoop
    THEN QueueBrowserTask(queue, cefBrowser[loc[t].i], loc[t].b, loc[t].fn,
                          FuncArg(t))
    ELSE QueueCEFTask(queue, [Task("async", NullInst, loc[t].b, loc[t].b,
                                   "none", loc[t].fn)
                                 EXCEPT !.arg = FuncArg(t)])

\* A submission that waits for room in the queue instead of returning.
AsyncSubmitBlocking(t) ==
    /\ ~crashed
    /\ pc[t] \in {"ea_enq", "js_enq"}
    /\ IF loc[t].b = NullObj
       THEN /\ ev' = "async_skip"
            /\ UNCHANGED queue
       ELSE /\ HasRoom
            /\ queue' = SubmitFunc(t)
            /\ ev' = "none"
    /\ IF pc[t] = "js_enq"
       THEN /\ mtx' = "none"
            /\ IF loc[t].ret2 = "idle" THEN Return(t)
               ELSE Goto(t, loc[t].ret2) /\ UNCHANGED loc
       ELSE /\ UNCHANGED mtx
            /\ IF loc[t].ret = "idle" THEN Return(t)
               ELSE Goto(t, loc[t].ret) /\ UNCHANGED loc
    /\ UNCHANGED <<build, keys, lastNorm, life, cfg, cefBrowser, create_browser, is_showing,
                   first_update, registry, obj, crashed>>

\* Lines 124-130: if (!!browser) queue func.
AsyncSubmit(t) ==
    /\ ~crashed
    /\ pc[t] \in {"ea_enq", "js_enq"}
    /\ IF loc[t].b = NullObj
       THEN /\ ev' = "async_skip"
            /\ UNCHANGED queue
       ELSE \E ok \in BOOLEAN :
              IF ok
              THEN /\ HasRoom
                   /\ queue' = SubmitFunc(t)
                   /\ ev' = "none"
              ELSE /\ ev' = "async_rejected"
                   /\ UNCHANGED queue
    /\ IF pc[t] = "js_enq"
       THEN /\ mtx' = "none"
            /\ IF loc[t].ret2 = "idle" THEN Return(t)
               ELSE Goto(t, loc[t].ret2) /\ UNCHANGED loc
       ELSE /\ UNCHANGED mtx
            /\ IF loc[t].ret = "idle" THEN Return(t)
               ELSE Goto(t, loc[t].ret) /\ UNCHANGED loc
    /\ UNCHANGED <<build, keys, lastNorm, life, cfg, cefBrowser, create_browser, is_showing,
                   first_update, registry, obj, crashed>>

(* ---------------------- DestroyBrowser (198-221) ----------------------- *)

\* The synchronous call with line 118 dropped: the caller waits for the
\* event whatever QueueCEFTask returned.
ExecuteSyncWaitsAnyway(t, i, after) ==
    /\ loc' = [loc EXCEPT ![t] = [IdleLoc EXCEPT !.i = i, !.fn = "close",
                                                 !.ret2 = after]]
    /\ IF OnEngineThread(t)
       THEN /\ obj' = RunFunc("close", cefBrowser[i])
            /\ ev' = IF cefBrowser[i] = NullObj THEN "inline_skip"
                     ELSE IF obj[cefBrowser[i]] = "closed"
                     THEN "inline_fn_closed"
                     ELSE "inline_fn"
            /\ Goto(t, "db_null")
            /\ UNCHANGED queue
       ELSE /\ UNCHANGED obj
            /\ \E ok \in BOOLEAN :
                 IF ok
                 THEN /\ HasRoom
                      /\ queue' = QueueCEFTask(queue,
                                    Task("sync", i, NullObj, NullObj, t, "close"))
                      /\ ev' = "sync_queued"
                      /\ Goto(t, "sync_wait")
                 ELSE /\ ev' = "sync_rejected"
                      /\ Goto(t, "sync_wait")
                      /\ UNCHANGED queue

\* ExecuteOnBrowser(teardown, false), lines 103-121, as called by
\* DestroyBrowser(false): on the engine thread the closure runs at once if
\* the handle is valid; elsewhere a task is queued and the caller waits for
\* it unless the queue refused it.  `after` is where the caller of
\* DestroyBrowser goes on after line 220.
ExecuteSync(t, i, after) ==
    /\ loc' = [loc EXCEPT ![t] = [IdleLoc EXCEPT !.i = i, !.fn = "close",
                                                 !.ret2 = after]]
    /\ IF OnEngineThread(t)
       THEN /\ obj' = RunFunc("close", cefBrowser[i])
            /\ ev' = IF cefBrowser[i] = NullObj THEN "inline_skip"
                     ELSE IF obj[cefBrowser[i]] = "closed"
                     THEN "inline_fn_closed"
                     ELSE "inline_fn"
            /\ Goto(t, "db_null")
            /\ UNCHANGED queue
       ELSE /\ UNCHANGED obj
            /\ \E ok \in BOOLEAN :
                 IF ok
                 THEN /\ HasRoom
                      /\ queue' = QueueCEFTask(queue,
                                    Task("sync", i, NullObj, NullObj, t, "close"))
                      /\ ev' = "sync_queued"
                      /\ Goto(t, "sync_wait")
                 ELSE /\ ev' = "sync_rejected"
                      /\ Goto(t, "db_null")
                      /\ UNCHANGED queue

\* DestroyBrowser(false) called on a live instance (the Destroy operation).
DestroyBrowserSync(t, i) ==
    /\ ~crashed
    /\ pc[t] = "idle"
    /\ life[i] = "live"
    /\ ExecuteSync(t, i, "idle")
    /\ UNCHANGED <<build, keys, lastNorm, life, cfg, cefBrowser, create_browser, is_showing,
                   first_update, registry, mtx, crashed>>

\* Line 220: cefBrowser = nullptr.
DestroyBrowserNull(t) ==
    /\ ~crashed
    /\ pc[t] = "db_null"
    /\ cefBrowser' = [cefBrowser EXCEPT ![loc[t].i] = NullObj]
    /\ IF loc[t].ret2 = "idle" THEN Return(t)
       ELSE Goto(t, loc[t].ret2) /\ UNCHANGED loc
    /\ ev' = "none"
    /\ UNCHANGED <<build, keys, lastNorm, life, cfg, create_browser, is_showing, first_update,
                   registry, mtx, queue, obj, crashed>>

\* DestroyBrowser(true): ExecuteOnBrowser(teardown, true), then line 220.
CallDestroyBrowserAsync(t, i, after, v) ==
    /\ Goto(t, "ea_cap")
    /\ loc' = [loc EXCEPT ![t] = [IdleLoc EXCEPT !.i = i, !.fn = "close",
                                   !.ret = "db_null", !.ret2 = after,
                                   !.v = v]]

(* --------------------------- Update (824-915) -------------------------- *)

\* The comparison with restart and shutdown_on_invisible crossed.
SameConfigCrossed(n, c) ==
    /\ n.is_local = c.is_local /\ n.width = c.width /\ n.height = c.height
    /\ n.fps_custom = c.fps_custom /\ n.fps = c.fps
    /\ n.shutdown = c.restart /\ n.restart = c.shutdown /\ n.css = c.css
    /\ n.url = c.url /\ n.reroute = c.reroute

\* Lines 886-890: the field-for-field comparison with the snapshot.
SameConfig(n, c) ==
    /\ n.is_local = c.is_local /\ n.width = c.width /\ n.height = c.height
    /\ n.fps_custom = c.fps_custom /\ n.fps = c.fps
    /\ n.shutdown = c.shutdown /\ n.restart = c.restart /\ n.css = c.css
    /\ n.url = c.url /\ n.reroute = c.reroute

\* Update(settings), lines 826-902: normalize; return if nothing changed;
\* otherwise store every field but the url (which line 903 stores).
Update(t, i, raw) ==
    /\ ~crashed
    /\ pc[t] = "idle"
    /\ life[i] = "live"
    /\ LET n == Normalize(raw, win32, fileScheme)
       IN IF Throws(raw, win32)
          THEN /\ crashed' = TRUE
               /\ ev' = "update_threw"
               /\ UNCHANGED <<cfg, pc, loc, lastNorm>>
          ELSE IF SameConfig(n, cfg[i])
          THEN /\ ev' = "update_same"
               /\ lastNorm' = [lastNorm EXCEPT ![i] = n]
               /\ UNCHANGED <<cfg, pc, loc, crashed>>
          ELSE /\ cfg' = [cfg EXCEPT ![i] = [n EXCEPT !.url = cfg[i].url]]
               /\ Goto(t, "upd_url")
               /\ loc' = [loc EXCEPT ![t] = [IdleLoc EXCEPT !.i = i,
                                              !.n = n.url]]
               /\ ev' = "update_changed"
               /\ lastNorm' = [lastNorm EXCEPT ![i] = n]
               /\ UNCHANGED crashed
    /\ UNCHANGED <<build, keys, life, cefBrowser, create_browser, is_showing,
                   first_update, registry, mtx, queue, obj>>

\* Lines 903-908: url = n_url, then DestroyBrowser(true).
UpdateUrl(t) ==
    /\ ~crashed
    /\ pc[t] = "upd_url"
    /\ cfg' = [cfg EXCEPT ![loc[t].i].url = loc[t].n]
    /\ CallDestroyBrowserAsync(t, loc[t].i, "upd_tail", FALSE)
    /\ ev' = "none"
    /\ UNCHANGED <<build, keys, lastNorm, life, cefBrowser, create_browser, is_showing,
                   first_update, registry, mtx, queue, obj, crashed>>

\* Update(nullptr): lines 908-914 alone; this step is the call and line 123
\* of its DestroyBrowser(true).
UpdateNull(t, i) ==
    /\ ~crashed
    /\ pc[t] = "idle"
    /\ life[i] = "live"
    /\ Goto(t, "ea_enq")
    /\ loc' = [loc EXCEPT ![t] = [IdleLoc EXCEPT !.i = i, !.fn = "close",
                                   !.b = cefBrowser[i],
                                   !.ret = "db_null", !.ret2 = "upd_tail",
                                   !.absent = TRUE]]
    /\ ev' = "none"
    /\ UNCHANGED <<build, keys, lastNorm, life, cfg, cefBrowser, create_browser, is_showing,
                   first_update, registry, mtx, queue, obj, crashed>>

\* Lines 909-914: DestroyTextures and ClearAudioStreams touch only the
\* textures and the audio streams, which the model does not hold; then the
\* request for a new engine object.
UpdateTail(t) ==
    /\ ~crashed
    /\ pc[t] = "upd_tail"
    /\ LET i == loc[t].i
       IN /\ create_browser' =
               IF ~cfg[i].shutdown \/ obs_source_showing(i)
               THEN [create_browser EXCEPT ![i] = TRUE]
               ELSE create_browser
          /\ first_update' = [first_update EXCEPT ![i] = FALSE]
    /\ Return(t)
    /\ ev' = "none"
    /\ UNCHANGED <<build, keys, lastNorm, life, cfg, cefBrowser, is_showing, registry, mtx,
                   queue, obj, crashed>>

(* ---------------------- CreateBrowser and Tick ------------------------- *)

\* Lines 917-920, first half: if (create_browser && CreateBrowser()), where
\* CreateBrowser (134-136) queues the creation task and returns whether the
\* queue took it.
Tick(t, i) ==
    /\ ~crashed
    /\ pc[t] = "idle"
    /\ life[i] = "live"
    /\ IF ~create_browser[i]
       THEN /\ ev' = "none"
            /\ UNCHANGED <<queue, pc, loc>>
       ELSE \E ok \in BOOLEAN :
              IF ok
              THEN /\ HasRoom
                   /\ CreatesQueued < Cardinality(FreeIds)
                   /\ queue' = QueueCEFTask(queue,
                                 Task("create", i, NullObj, NullObj, "none", "none"))
                   /\ Goto(t, "tick_clr")
                   /\ loc' = [loc EXCEPT ![t] = [IdleLoc EXCEPT !.i = i]]
                   /\ ev' = "none"
              ELSE /\ ev' = "create_rejected"
                   /\ UNCHANGED <<queue, pc, loc>>
    /\ UNCHANGED <<build, keys, lastNorm, life, cfg, cefBrowser, create_browser, is_showing,
                   first_update, registry, mtx, obj, crashed>>

\* A Tick that leaves create_browser set after an accepted submission.
TickKeepsFlag(t) ==
    /\ ~crashed
    /\ pc[t] = "tick_clr"
    /\ Return(t)
    /\ ev' = "none"
    /\ UNCHANGED <<build, keys, lastNorm, life, cfg, cefBrowser, create_browser,
                   is_showing, first_update, registry, mtx, queue, obj,
                   crashed>>

\* Line 920: create_browser = false.
TickClear(t) ==
    /\ ~crashed
    /\ pc[t] = "tick_clr"
    /\ create_browser' = [create_browser EXCEPT ![loc[t].i] = FALSE]
    /\ Return(t)
    /\ ev' = "none"
    /\ UNCHANGED <<build, keys, lastNorm, life, cfg, cefBrowser, is_showing, first_update,
                   registry, mtx, queue, obj, crashed>>

(* ------------------ SetShowing, SetActive, Refresh, input -------------- *)

\* The event with the value negated.
JSEventNegated(eventName, key, value) ==
    [eventName |-> eventName, jsonString |-> <<key, ~value>>]

\* Lines 772-773, 796-797: Json::object{{key, value}}.dump() and the event
\* name, as DispatchJSEvent receives them.
JSEvent(eventName, key, value) ==
    [eventName |-> eventName, jsonString |-> <<key, value>>]

\* Lines 763-769 (and 65-70): the "Visibility" message with the value the
\* closure captured.
VisibilityMsg(showing) == [msg |-> "Visibility", value |-> showing]

VisibilityMsgs == {VisibilityMsg(showing) : showing \in BOOLEAN}

\* An event of the host's own, dispatched through DispatchJSEvent.
HostEvent == [eventName |-> "hostEvent", jsonString |-> <<>>]

\* Lines 752-771: is_showing = showing, then by shutdown_on_invisible either
\* Update() / DestroyBrowser(true), or the "Visibility" message.
SetShowing(t, i, showing) ==
    /\ ~crashed
    /\ pc[t] = "idle"
    /\ life[i] = "live"
    /\ is_showing' = [is_showing EXCEPT ![i] = showing]
    /\ IF cfg[i].shutdown
       THEN IF showing
            THEN /\ Goto(t, "ea_cap")
                 /\ loc' = [loc EXCEPT ![t] =
                              [IdleLoc EXCEPT !.i = i, !.fn = "close",
                                              !.ret = "db_null",
                                              !.ret2 = "upd_tail",
                                              !.v = showing,
                                              !.absent = TRUE]]
            ELSE CallDestroyBrowserAsync(t, i, "idle", showing)
       ELSE /\ Goto(t, "ea_cap")
            /\ loc' = [loc EXCEPT ![t] = [IdleLoc EXCEPT !.i = i, !.fn = "msg",
                                           !.ret = "js_cap",
                                           !.ret2 = "ss_direct",
                                           !.v = showing,
                                           !.arg = VisibilityMsg(showing),
                                           !.js = JSEvent(
                                               "obsSourceVisibleChanged",
                                               "visible", showing)]]
    /\ ev' = "none"
    /\ UNCHANGED <<build, keys, lastNorm, life, cfg, cefBrowser, create_browser, first_update,
                   registry, mtx, queue, obj, crashed>>

\* Line 780, SendBrowserVisibility(cefBrowser, showing) (52-71), run by the
\* thread that called SetShowing: with a non-null handle it calls WasHidden
\* (ENABLE_WASHIDDEN) and sends the "Visibility" message to the object.
SetShowingDirect(t) ==
    /\ ~crashed
    /\ pc[t] = "ss_direct"
    /\ ev' = IF cefBrowser[loc[t].i] = NullObj THEN "direct_skip"
             ELSE IF OnEngineThread(t) THEN "direct_on_engine"
             ELSE "direct_off_engine"
    /\ vis' = IF vis = NoVisibility \/ cefBrowser[loc[t].i] = NullObj
              THEN vis
              ELSE [vis EXCEPT ![cefBrowser[loc[t].i]] = loc[t].v]
    /\ Return(t)
    /\ UNCHANGED <<build, delivered, vkey, lastNorm, life, cfg, cefBrowser, create_browser, is_showing,
                   first_update, registry, mtx, queue, obj, crashed>>

\* Lines 786-797: the "Active" message, then DispatchJSEvent(..., this);
\* this step is the call and line 123.
SetActive(t, i, active) ==
    /\ ~crashed
    /\ pc[t] = "idle"
    /\ life[i] = "live"
    /\ Goto(t, "ea_enq")
    /\ loc' = [loc EXCEPT ![t] = [IdleLoc EXCEPT !.i = i, !.fn = "msg",
                                   !.b = cefBrowser[i], !.ret = "js_cap",
                                   !.v = active,
                                   !.js = JSEvent("obsSourceActiveChanged",
                                                  "active", active)]]
    /\ ev' = "none"
    /\ UNCHANGED <<build, keys, lastNorm, life, cfg, cefBrowser, create_browser, is_showing,
                   first_update, registry, mtx, queue, obj, crashed>>

\* An input call whose closure closes the object.
SendAsyncClosing(t, i) ==
    /\ ~crashed
    /\ pc[t] = "idle"
    /\ life[i] = "live"
    /\ Goto(t, "ea_enq")
    /\ loc' = [loc EXCEPT ![t] = [IdleLoc EXCEPT !.i = i, !.fn = "close",
                                   !.b = cefBrowser[i]]]
    /\ ev' = "none"
    /\ UNCHANGED <<build, keys, lastNorm, life, cfg, cefBrowser, create_browser, is_showing,
                   first_update, registry, mtx, queue, obj, crashed>>

\* Refresh (800-807) and the input calls (232-299, 705-748): one
\* ExecuteOnBrowser(func, true); this step is the call and line 123.
SendAsync(t, i) ==
    /\ ~crashed
    /\ pc[t] = "idle"
    /\ life[i] = "live"
    /\ Goto(t, "ea_enq")
    /\ loc' = [loc EXCEPT ![t] = [IdleLoc EXCEPT !.i = i, !.fn = "msg",
                                   !.b = cefBrowser[i]]]
    /\ ev' = "none"
    /\ UNCHANGED <<build, keys, lastNorm, life, cfg, cefBrowser, create_browser, is_showing,
                   first_update, registry, mtx, queue, obj, crashed>>

Refresh(t, i) == SendAsync(t, i)

SendInput(t, i) == SendAsync(t, i)

(* ------------------------ SendKeyClick (705-748) ---------------------- *)

\* to_wide(text): the UTF-8 bytes of text as wide characters; the conversion
\* ends at a byte sequence that is not UTF-8.
RECURSIVE to_wide(_)
to_wide(text) ==
    IF text = <<>> THEN <<>>
    ELSE IF text[1] < 128
         THEN <<text[1]>> \o to_wide(Tail(text))
    ELSE IF /\ text[1] \in 194..223
            /\ Len(text) >= 2
            /\ text[2] \in 128..191
         THEN <<(text[1] - 192) * 64 + (text[2] - 128)>>
                  \o to_wide(SubSeq(text, 3, Len(text)))
    ELSE <<>>

\* The key symbol whose value is the character c, for the characters of the
\* model's texts (the Latin-1 key symbols have the values of their
\* characters; 0 is NoSymbol).
KeysymOfChar(c) ==
    CASE c = 97 -> "XK_a"
      [] c = 98 -> "XK_b"
      [] c = 233 -> "XK_eacute"
      [] OTHER -> "NoSymbol"

\* The texts of the model's key events: none, "a", "ab", e with an acute
\* accent (two bytes), and a lone continuation byte.
KeyTexts == {<<>>, <<97>>, <<97, 98>>, <<195, 169>>, <<169>>}

\* The obs_key_event values the host sends: native_vkey is a key symbol on
\* Linux and a Windows key code elsewhere.
KeyEvents ==
    [text : KeyTexts,
     native_vkey : IF linux THEN {"XK_a", "XK_eacute"} ELSE {65},
     native_scancode : {38},
     native_modifiers : {0}]

\* The closure with the character event sent for a key-up too.
KeyEventsSentAlways(arg) ==
    LET wide == to_wide(arg.text)
        e == [type |-> IF arg.key_up THEN "KEYEVENT_KEYUP"
                       ELSE "KEYEVENT_RAWKEYDOWN",
              windows_key_code |-> arg.native_vkey,
              native_key_code |-> arg.native_scancode,
              character |-> IF arg.text # <<>> /\ wide # <<>>
                            THEN wide[1] ELSE 0,
              modifiers |-> arg.native_modifiers]
    IN IF arg.text # <<>>
       THEN <<e, [e EXCEPT !.type = "KEYEVENT_CHAR",
                           !.windows_key_code =
                               IF linux
                               THEN KeyboardCodeFromXKeysym(
                                        KeysymOfChar(e.character))
                               ELSE e.character]>>
       ELSE <<e>>

\* The closure of SendKeyClick, lines 717-746: the events it passes to
\* SendKeyEvent, in order.  CefKeyEvent e starts zeroed.
KeyEventsSent(arg) ==
    LET wide == to_wide(arg.text)
        e == [type |-> IF arg.key_up THEN "KEYEVENT_KEYUP"
                       ELSE "KEYEVENT_RAWKEYDOWN",
              windows_key_code |-> arg.native_vkey,
              native_key_code |-> arg.native_scancode,
              character |-> IF arg.text # <<>> /\ wide # <<>>
                            THEN wide[1] ELSE 0,
              modifiers |-> arg.native_modifiers]
    IN IF arg.text # <<>> /\ ~arg.key_up
       THEN <<e, [e EXCEPT !.type = "KEYEVENT_CHAR",
                           !.windows_key_code =
                               IF linux
                               THEN KeyboardCodeFromXKeysym(
                                        KeysymOfChar(e.character))
                               ELSE e.character]>>
       ELSE <<e>>

\* Lines 705-716 and line 123: the locals the closure captures, native_vkey
\* translated on Linux, and the handle copied.
SendKeyClick(t, i, event, key_up) ==
    /\ ~crashed
    /\ pc[t] = "idle"
    /\ life[i] = "live"
    /\ Goto(t, "ea_enq")
    /\ loc' = [loc EXCEPT ![t] =
                 [IdleLoc EXCEPT
                    !.i = i, !.fn = "key", !.b = cefBrowser[i],
                    !.arg = [text |-> event.text,
                             key_up |-> key_up,
                             native_vkey |->
                                 IF linux
                                 THEN KeyboardCodeFromXKeysym(event.native_vkey)
                                 ELSE event.native_vkey,
                             native_scancode |-> event.native_scancode,
                             native_modifiers |-> event.native_modifiers]]]
    /\ ev' = "none"
    /\ UNCHANGED <<build, keys, lastNorm, life, cfg, cefBrowser, create_browser, is_showing,
                   first_update, registry, mtx, queue, obj, crashed>>

\* Some key symbols with no case label in the switch.
UnmappedKeysyms ==
    {"NoSymbol", "XK_VoidSymbol", "XK_eacute", "XK_Greek_alpha", "XK_Sys_Req"}

KeysymInputs == MappedKeysyms \cup UnmappedKeysyms

\* KeyboardCodeFromXKeysym applied to one key symbol.
TranslateKey(keysym) ==
    /\ vkey = NoKey
    /\ vkey' = [keysym |-> keysym, code |-> KeyboardCodeFromXKeysym(keysym)]
    /\ UNCHANGED <<build, delivered, vis, lastNorm, life, cfg, cefBrowser,
                   create_browser, is_showing, first_update, registry, mtx,
                   queue, obj, pc, loc, crashed, ev>>

(* ------------------- the registry (76-99, 950-970) --------------------- *)

\* A lock that any thread gets at once.
AcquireUnlocked(t) == mtx' = t

\* lock_guard<mutex> lock(browser_list_mutex): the thread gets the mutex
\* when no thread holds it.
Acquire(t) == mtx = "none" /\ mtx' = t

\* Lines 76-81: the members take their initial values and the deferred
\* update is requested from the host.
Constructor(t, i) ==
    /\ ~crashed
    /\ pc[t] = "idle"
    /\ life[i] = "free"
    /\ life' = [life EXCEPT ![i] = "ctor"]
    /\ Goto(t, "ctor_lock")
    /\ loc' = [loc EXCEPT ![t] = [IdleLoc EXCEPT !.i = i]]
    /\ ev' = "none"
    /\ UNCHANGED <<build, keys, lastNorm, cfg, cefBrowser, create_browser, is_showing,
                   first_update, registry, mtx, queue, obj, crashed>>

\* Lines 82-84: the lock taken, p_prev_next = &first_browser and
\* next = first_browser.
ConstructorLink(t) ==
    /\ ~crashed
    /\ pc[t] = "ctor_lock"
    /\ Acquire(t)
    /\ p_prev_next' = [p_prev_next EXCEPT ![loc[t].i] = FirstSlot]
    /\ next' = [next EXCEPT ![loc[t].i] = first_browser]
    /\ Goto(t, "ctor_fix")
    /\ ev' = "none"
    /\ UNCHANGED <<build, keys, lastNorm, life, cfg, cefBrowser, create_browser, is_showing,
                   first_update, first_browser, queue, obj, loc, crashed>>

\* Lines 85-86: if (first_browser) first_browser->p_prev_next = &next.
ConstructorFix(t) ==
    /\ ~crashed
    /\ pc[t] = "ctor_fix"
    /\ p_prev_next' = IF first_browser # NullInst
                      THEN [p_prev_next EXCEPT ![first_browser] = loc[t].i]
                      ELSE p_prev_next
    /\ Goto(t, "ctor_head")
    /\ ev' = "none"
    /\ UNCHANGED <<build, keys, lastNorm, life, cfg, cefBrowser, create_browser, is_showing,
                   first_update, next, first_browser, mtx, queue, obj, loc,
                   crashed>>

\* Lines 87-88: first_browser = this, the lock released.
ConstructorHead(t) ==
    /\ ~crashed
    /\ pc[t] = "ctor_head"
    /\ first_browser' = loc[t].i
    /\ mtx' = "none"
    /\ life' = [life EXCEPT ![loc[t].i] = "live"]
    /\ Return(t)
    /\ ev' = "constructed"
    /\ UNCHANGED <<build, keys, lastNorm, cfg, cefBrowser, create_browser, is_showing,
                   first_update, next, p_prev_next, queue, obj, crashed>>

\* A destructor that takes the registry lock before DestroyBrowser().
DestructorLocksFirst(t, i) ==
    /\ ~crashed
    /\ pc[t] = "idle"
    /\ life[i] = "live"
    /\ Acquire(t)
    /\ life' = [life EXCEPT ![i] = "dtor"]
    /\ ExecuteSync(t, i, "dtor_lock")
    /\ UNCHANGED <<build, keys, lastNorm, cfg, cefBrowser, create_browser, is_showing,
                   first_update, registry, crashed>>

\* Line 92: the destructor starts with DestroyBrowser() (async = false).
Destructor(t, i) ==
    /\ ~crashed
    /\ pc[t] = "idle"
    /\ life[i] = "live"
    /\ life' = [life EXCEPT ![i] = "dtor"]
    /\ ExecuteSync(t, i, "dtor_lock")
    /\ UNCHANGED <<build, keys, lastNorm, cfg, cefBrowser, create_browser, is_showing,
                   first_update, registry, mtx, crashed>>

\* Lines 95-97: the lock taken, if (next) next->p_prev_next = p_prev_next.
DestructorUnlink(t) ==
    /\ ~crashed
    /\ pc[t] = "dtor_lock"
    /\ Acquire(t)
    /\ LET i == loc[t].i
       IN p_prev_next' = IF next[i] # NullInst
                         THEN [p_prev_next EXCEPT ![next[i]] = p_prev_next[i]]
                         ELSE p_prev_next
    /\ Goto(t, "dtor_store")
    /\ ev' = "none"
    /\ UNCHANGED <<build, keys, lastNorm, life, cfg, cefBrowser, create_browser, is_showing,
                   first_update, next, first_browser, queue, obj, loc,
                   crashed>>

\* Lines 98-99: *p_prev_next = next, the lock released; the object's storage
\* is gone.
DestructorStore(t) ==
    /\ ~crashed
    /\ pc[t] = "dtor_store"
    /\ LET i == loc[t].i
       IN /\ IF p_prev_next[i] = FirstSlot
             THEN /\ first_browser' = next[i]
                  /\ next' = [next EXCEPT ![i] = NullInst]
             ELSE /\ next' = [next EXCEPT ![p_prev_next[i]] = next[i],
                                          ![i] = NullInst]
                  /\ UNCHANGED first_browser
          /\ p_prev_next' = [p_prev_next EXCEPT ![i] = NoSlot]
          /\ life' = [life EXCEPT ![i] = "free"]
          /\ cfg' = [cfg EXCEPT ![i] = InitCfg]
          /\ cefBrowser' = [cefBrowser EXCEPT ![i] = NullObj]
          /\ create_browser' = [create_browser EXCEPT ![i] = FALSE]
          /\ is_showing' = [is_showing EXCEPT ![i] = FALSE]
          /\ first_update' = [first_update EXCEPT ![i] = TRUE]
          /\ lastNorm' = [lastNorm EXCEPT ![i] = NoUpdate]
    /\ mtx' = "none"
    /\ Return(t)
    /\ ev' = "destructed"
    /\ UNCHANGED <<build, keys, queue, obj, crashed>>

\* Line 968 skipping a node.
SkipOne(bs) == IF next[bs] # NullInst THEN next[next[bs]] ELSE NullInst

\* Line 968: bs = bs->next.
NextOf(bs) == next[bs]

\* DispatchJSEvent(eventName, jsonString, browser), lines 972-989: with a
\* target the static ExecuteOnBrowser (950-958), which takes the lock and
\* calls bsw->ExecuteOnBrowser(func, true); without, ExecuteOnAllBrowsers.
DispatchJSEvent(t, browser) ==
    /\ ~crashed
    /\ pc[t] = "idle"
    /\ browser # NullInst => life[browser] = "live"
    /\ IF browser = NullInst
       THEN /\ Goto(t, "all_lock")
            /\ loc' = [loc EXCEPT ![t] = [IdleLoc EXCEPT !.fn = "msg",
                                                         !.js = HostEvent]]
       ELSE /\ Goto(t, "js_cap")
            /\ loc' = [loc EXCEPT ![t] = [IdleLoc EXCEPT !.i = browser,
                                                         !.fn = "msg",
                                                         !.js = HostEvent]]
    /\ ev' = "none"
    /\ UNCHANGED <<build, keys, lastNorm, life, cfg, cefBrowser, create_browser, is_showing,
                   first_update, registry, mtx, queue, obj, crashed>>

\* Lines 962-964: the lock taken, bs = first_browser.
ExecuteOnAllBrowsersLock(t) ==
    /\ ~crashed
    /\ pc[t] = "all_lock"
    /\ Acquire(t)
    /\ loc' = [loc EXCEPT ![t].i = first_browser]
    /\ Goto(t, "all_walk")
    /\ ev' = "none"
    /\ UNCHANGED <<build, keys, lastNorm, life, cfg, cefBrowser, create_browser, is_showing,
                   first_update, registry, queue, obj, crashed>>

\* Line 965, while (bs): at the end of the list the lock is released;
\* otherwise lines 966-967 up to line 123 of bsw->ExecuteOnBrowser, which
\* copies the handle.  seen lists the instances the walk has visited.
ExecuteOnAllBrowsersVisit(t) ==
    /\ ~crashed
    /\ pc[t] = "all_walk"
    /\ IF loc[t].i = NullInst
       THEN /\ mtx' = "none"
            /\ Return(t)
            /\ ev' = "broadcast_done"
       ELSE /\ loc' = [loc EXCEPT ![t].b = cefBrowser[loc[t].i],
                                  ![t].seen = Append(loc[t].seen, loc[t].i)]
            /\ Goto(t, "all_enq")
            /\ ev' = "none"
            /\ UNCHANGED mtx
    /\ UNCHANGED <<build, keys, lastNorm, life, cfg, cefBrowser, create_browser, is_showing,
                   first_update, registry, queue, obj, crashed>>

\* Lines 124-130 for the visited instance, then line 968.
ExecuteOnAllBrowsersSubmit(t) ==
    /\ ~crashed
    /\ pc[t] = "all_enq"
    /\ IF loc[t].b = NullObj
       THEN /\ ev' = "async_skip"
            /\ UNCHANGED queue
       ELSE \E ok \in BOOLEAN :
              IF ok
              THEN /\ HasRoom
                   /\ queue' = SubmitFunc(t)
                   /\ ev' = "none"
              ELSE /\ ev' = "async_rejected"
                   /\ UNCHANGED queue
    /\ loc' = [loc EXCEPT ![t].i = NextOf(loc[t].i), ![t].b = NullObj]
    /\ Goto(t, "all_walk")
    /\ UNCHANGED <<build, keys, lastNorm, life, cfg, cefBrowser, create_browser, is_showing,
                   first_update, registry, mtx, obj, crashed>>

(* --------------------------- the engine thread ------------------------- *)

\* The engine thread can take a task: with USE_QT_LOOP it is the Qt main
\* thread, which runs queued tasks only between the operations it executes.
EngineReady ==
    /\ ~crashed
    /\ queue # <<>>
    /\ qtLoop => pc["main"] = "idle"

\* The creation task, lines 136-195: CreateBrowserSync, the handle stored,
\* then SendBrowserVisibility(cefBrowser, is_showing), which sends the new
\* object the value of is_showing (line 194).
\* The task holds `this`: run after the destructor has returned it reads
\* and writes freed storage, which either goes through or stops the process.
RunCreate ==
    /\ EngineReady
    /\ Head(queue).k = "create"
    /\ FreeIds # {}
    /\ LET i == Head(queue).i
           o == CHOOSE x \in FreeIds : \A y \in FreeIds : x <= y
       IN /\ obj' = [obj EXCEPT ![o] = "live"]
          /\ cefBrowser' = [cefBrowser EXCEPT ![i] = o]
          /\ vis' = IF vis = NoVisibility THEN vis
                    ELSE [vis EXCEPT ![o] = is_showing[i]]
          /\ ev' = IF life[i] # "live" THEN "create_after_dtor"
                   ELSE IF cefBrowser[i] # NullObj THEN "create_over_handle"
                   ELSE "created"
          /\ crashed' \in IF life[i] = "free" THEN BOOLEAN ELSE {crashed}
    /\ queue' = Tail(queue)
    /\ UNCHANGED <<build, delivered, vkey, lastNorm, life, cfg, create_browser, is_showing, first_update,
                   registry, mtx, pc, loc>>

\* A queued func(browser), line 128 (or the Qt loop's browser task).
RunAsync ==
    /\ EngineReady
    /\ Head(queue).k = "async"
    /\ LET b == Head(queue).b
       IN /\ obj' = RunFunc(Head(queue).fn, b)
          /\ crashed' = (b = NullObj)
          /\ ev' = IF b = NullObj THEN "async_fn_null"
                   ELSE IF obj[b] = "closed" THEN "async_fn_closed"
                   ELSE "async_fn"
          /\ delivered' = IF Head(queue).fn = "key" /\ b # NullObj
                          THEN [o |-> b, arg |-> Head(queue).arg,
                                events |-> KeyEventsSent(Head(queue).arg)]
                          ELSE delivered
          /\ vis' = IF /\ vis # NoVisibility
                       /\ b # NullObj
                       /\ Head(queue).arg \in VisibilityMsgs
                    THEN [vis EXCEPT ![b] = Head(queue).arg.value]
                    ELSE vis
    /\ queue' = Tail(queue)
    /\ UNCHANGED <<build, vkey, lastNorm, life, cfg, cefBrowser, create_browser, is_showing,
                   first_update, registry, mtx, pc, loc>>

\* The task of a synchronous call, lines 113-117: the handle is read when
\* the task runs; the waiting caller is released (line 116).
RunSync ==
    /\ EngineReady
    /\ Head(queue).k = "sync"
    /\ LET i == Head(queue).i
           b == cefBrowser[i]
       IN /\ obj' = RunFunc(Head(queue).fn, b)
          /\ ev' = IF b = NullObj THEN "sync_skip"
                   ELSE IF obj[b] = "closed" THEN "sync_fn_closed"
                   ELSE "sync_fn"
    /\ Goto(Head(queue).t, "db_null")
    /\ queue' = Tail(queue)
    /\ UNCHANGED <<build, keys, lastNorm, life, cfg, cefBrowser, create_browser, is_showing,
                   first_update, registry, mtx, loc, crashed>>

(* ---------------------------- specification ---------------------------- *)

\* The thread that drives the instance in Spec and SpecRace.
Control == "main"

\* The steps inside the operations, for the thread t.
Inner(t) ==
    \/ UpdateUrl(t)
    \/ UpdateTail(t)
    \/ TickClear(t)
    \/ SetShowingDirect(t)
    \/ DestroyBrowserNull(t)
    \/ AsyncCapture(t)
    \/ AsyncSubmit(t)

Engine ==
    \/ RunCreate
    \/ RunAsync
    \/ RunSync

\* One live instance driven by one host thread, which calls every
\* operation, and the engine thread, which runs the queue.
Next ==
    \/ \E i \in Insts, raw \in SettingsSet : Update(Control, i, raw)
    \/ \E i \in Insts : UpdateNull(Control, i)
    \/ \E i \in Insts : Tick(Control, i)
    \/ \E i \in Insts, v \in BOOLEAN : SetShowing(Control, i, v)
    \/ \E i \in Insts, active \in BOOLEAN : SetActive(Control, i, active)
    \/ \E i \in Insts : Refresh(Control, i)
    \/ \E i \in Insts : SendInput(Control, i)
    \/ \E i \in Insts : DestroyBrowserSync(Control, i)
    \/ Inner(Control)
    \/ Engine

Spec == Init /\ [][Next]_vars

\* The same, with a host thread that goes on with the operation it is in;
\* nothing is asked of the engine thread.
SpecHost == Init /\ [][Next]_vars /\ WF_vars(Inner(Control))

\* A second host thread: "gfx" requests teardown and re-creation with
\* Update(nullptr) while "main" ticks, sends input and destroys.
NextRace ==
    \/ \E i \in Insts : Tick(Control, i)
    \/ \E i \in Insts : SendInput(Control, i)
    \/ \E i \in Insts : DestroyBrowserSync(Control, i)
    \/ \E i \in Insts : UpdateNull("gfx", i)
    \/ \E t \in Threads : UpdateTail(t)
    \/ \E t \in Threads : TickClear(t)
    \/ \E t \in Threads : DestroyBrowserNull(t)
    \/ \E t \in Threads : AsyncSubmit(t)
    \/ Engine

SpecRace == Init /\ [][NextRace]_vars

\* No instance constructed yet: the registry is empty.
InitReg ==
    /\ InitCommon
    /\ vis = NoVisibility
    /\ qtLoop \in BOOLEAN
    /\ win32 = FALSE
    /\ fileScheme = TRUE
    /\ linux = TRUE
    /\ life = [i \in Insts |-> "free"]
    /\ next = [i \in Insts |-> NullInst]
    /\ p_prev_next = [i \in Insts |-> NoSlot]
    /\ first_browser = NullInst

\* Constructions and destructions from both threads.
NextReg ==
    \/ \E t \in Threads, i \in Insts : Constructor(t, i)
    \/ \E t \in Threads : ConstructorLink(t)
    \/ \E t \in Threads : ConstructorFix(t)
    \/ \E t \in Threads : ConstructorHead(t)
    \/ \E t \in Threads, i \in Insts : Destructor(t, i)
    \/ \E t \in Threads : DestroyBrowserNull(t)
    \/ \E t \in Threads : DestructorUnlink(t)
    \/ \E t \in Threads : DestructorStore(t)
    \/ RunSync

SpecReg == InitReg /\ [][NextReg]_vars

\* The instances met when following next from first_browser, at most n of
\* them.
RECURSIVE Walk(_, _)
Walk(b, n) ==
    IF b = NullInst \/ n = 0 THEN <<>> ELSE <<b>> \o Walk(next[b], n - 1)

RegistryList == Walk(first_browser, NInst + 1)

\* The settings of the instance that shuts down when hidden.
ShutdownSettings == [BaseSettings EXCEPT !.shutdown = TRUE]

\* QueueCEFTask took the submission of this step.
Accepted == ev' \notin {"create_rejected", "async_rejected", "sync_rejected"}

\* The host configures instance 1 to shut down when hidden, shows and hides
\* it and ticks it, and the queue accepts every task.
HostLive ==
    \/ Update(Control, 1, ShutdownSettings)
    \/ UpdateUrl(Control)
    \/ UpdateTail(Control)
    \/ \E showing \in BOOLEAN : SetShowing(Control, 1, showing)
    \/ AsyncCapture(Control)
    \/ AsyncSubmit(Control) /\ Accepted
    \/ DestroyBrowserNull(Control)
    \/ TickClear(Control)

TickAccepted == Tick(Control, 1) /\ Accepted

EngineLive == RunCreate \/ RunAsync

NextLive == HostLive \/ TickAccepted \/ EngineLive

\* A thread inside an operation goes on (WF); the host calls Tick on every
\* frame and the engine thread takes queued tasks whenever it is free, with
\* USE_QT_LOOP between the operations of the main thread (SF).
Fairness ==
    /\ WF_vars(UpdateUrl(Control))
    /\ WF_vars(UpdateTail(Control))
    /\ WF_vars(AsyncCapture(Control))
    /\ WF_vars(AsyncSubmit(Control) /\ Accepted)
    /\ WF_vars(DestroyBrowserNull(Control))
    /\ WF_vars(TickClear(Control))
    /\ SF_vars(TickAccepted)
    /\ SF_vars(EngineLive)

SpecLive == Init /\ [][NextLive]_vars /\ Fairness

\* The host thread constructs instances, gives them engine objects and
\* dispatches events to one instance or to all.
NextDispatch ==
    \/ \E i \in Insts : Constructor(Control, i)
    \/ ConstructorLink(Control)
    \/ ConstructorFix(Control)
    \/ ConstructorHead(Control)
    \/ \E i \in Insts : UpdateNull(Control, i)
    \/ UpdateTail(Control)
    \/ DestroyBrowserNull(Control)
    \/ \E i \in Insts : Tick(Control, i)
    \/ TickClear(Control)
    \/ \E browser \in Insts \cup {NullInst} : DispatchJSEvent(Control, browser)
    \/ AsyncCapture(Control)
    \/ AsyncSubmit(Control)
    \/ ExecuteOnAllBrowsersLock(Control)
    \/ ExecuteOnAllBrowsersVisit(Control)
    \/ ExecuteOnAllBrowsersSubmit(Control)
    \/ RunCreate
    \/ RunAsync

SpecDispatch == InitReg /\ [][NextDispatch]_vars

\* One instance and either build, Linux or not.
InitKey ==
    /\ InitCommon
    /\ vis = NoVisibility
    /\ qtLoop \in BOOLEAN
    /\ win32 = FALSE
    /\ fileScheme = TRUE
    /\ linux \in BOOLEAN
    /\ life = [i \in Insts |-> IF i = 1 THEN "live" ELSE "free"]
    /\ next = [i \in Insts |-> NullInst]
    /\ p_prev_next = [i \in Insts |-> IF i = 1 THEN FirstSlot ELSE NoSlot]
    /\ first_browser = 1

\* The key closures the queue may hold at once.
MaxKeyClicks == 1

KeyClicksQueued == Cardinality({k \in 1..Len(queue) : queue[k].fn = "key"})

\* The host gives instance 1 an engine object and sends it key events until
\* one has been delivered.
NextKey ==
    \/ UpdateNull(Control, 1)
    \/ UpdateTail(Control)
    \/ DestroyBrowserNull(Control)
    \/ Tick(Control, 1)
    \/ TickClear(Control)
    \/ /\ delivered = NoDelivery
       /\ KeyClicksQueued < MaxKeyClicks
       /\ \E event \in KeyEvents, key_up \in BOOLEAN :
              SendKeyClick(Control, 1, event, key_up)
    \/ AsyncSubmit(Control)
    \/ RunCreate
    \/ RunAsync

SpecKey == InitKey /\ [][NextKey]_vars

\* The translation applied to each key symbol of KeysymInputs.
NextKeycode == \E keysym \in KeysymInputs : TranslateKey(keysym)

SpecKeycode == Init /\ [][NextKeycode]_vars

\* One instance on each build, Windows or not, with or without the
\* file:// scheme.
InitNorm ==
    /\ InitCommon
    /\ vis = NoVisibility
    /\ qtLoop = FALSE
    /\ win32 \in BOOLEAN
    /\ fileScheme \in BOOLEAN
    /\ linux = FALSE
    /\ life = [i \in Insts |-> IF i = 1 THEN "live" ELSE "free"]
    /\ next = [i \in Insts |-> NullInst]
    /\ p_prev_next = [i \in Insts |-> IF i = 1 THEN FirstSlot ELSE NoSlot]
    /\ first_browser = 1

\* The host updates instance 1 with the settings of PathSettings and ticks.
NextNorm ==
    \/ \E raw \in PathSettings : Update(Control, 1, raw)
    \/ UpdateUrl(Control)
    \/ AsyncCapture(Control)
    \/ AsyncSubmit(Control)
    \/ DestroyBrowserNull(Control)
    \/ UpdateTail(Control)
    \/ Tick(Control, 1)
    \/ TickClear(Control)
    \/ RunCreate
    \/ RunAsync

SpecNorm == InitNorm /\ [][NextNorm]_vars

\* The host updates instance 1 with the settings of SnapshotSettings, or
\* with none, and ticks, while the engine thread runs the queued tasks.
NextSnapshot ==
    \/ \E raw \in SnapshotSettings : Update(Control, 1, raw)
    \/ UpdateUrl(Control)
    \/ UpdateNull(Control, 1)
    \/ AsyncCapture(Control)
    \/ AsyncSubmit(Control)
    \/ DestroyBrowserNull(Control)
    \/ UpdateTail(Control)
    \/ Tick(Control, 1)
    \/ TickClear(Control)
    \/ RunCreate
    \/ RunAsync

SpecSnapshot == Init /\ [][NextSnapshot]_vars

\* The host asks for an engine object for instance 1, whose
\* shutdown_on_invisible stays false, ticks, and shows and hides it.
NextVisibility ==
    \/ UpdateNull(Control, 1)
    \/ Tick(Control, 1)
    \/ \E showing \in BOOLEAN : SetShowing(Control, 1, showing)
    \/ UpdateTail(Control)
    \/ TickClear(Control)
    \/ SetShowingDirect(Control)
    \/ DestroyBrowserNull(Control)
    \/ AsyncCapture(Control)
    \/ AsyncSubmit(Control)
    \/ RunCreate
    \/ RunAsync

\* One instance, with the visibility sent to each engine object recorded.
InitVisibility ==
    /\ InitCommon
    /\ vis = [o \in Objs |-> "none"]
    /\ qtLoop \in BOOLEAN
    /\ win32 = FALSE
    /\ fileScheme = TRUE
    /\ linux = TRUE
    /\ life = [i \in Insts |-> IF i = 1 THEN "live" ELSE "free"]
    /\ next = [i \in Insts |-> NullInst]
    /\ p_prev_next = [i \in Insts |-> IF i = 1 THEN FirstSlot ELSE NoSlot]
    /\ first_browser = 1

SpecVisibility == InitVisibility /\ [][NextVisibility]_vars

\* The same with a queue that takes every task.
NextVisibilityAccepted == NextVisibility /\ Accepted

SpecVisibilityAccepted == InitVisibility /\ [][NextVisibilityAccepted]_vars

(* ------------------------------- claims -------------------------------- *)

\* C1: of two consecutive Update calls with field-for-field identical
\* normalized configurations, the second is a no-op: it submits no teardown
\* task, leaves the engine handle, the snapshot and create_browser
\* unchanged, and returns at once.
C1_SecondUpdateIsNoOp ==
    [][\A i \in Insts, raw \in SettingsSet :
          (/\ Update(Control, i, raw)
           /\ ~Throws(raw, win32)
           /\ Normalize(raw, win32, fileScheme) = lastNorm[i])
          => UNCHANGED <<cfg, cefBrowser, create_browser, queue, obj, pc>>]_vars

\* C1's case: a second Update with the same normalized configuration (the
\* local file, which two spellings of the settings give) has just returned
\* and the engine object created after the first is still the handle.
C1_Witness ==
    /\ ev = "update_same"
    /\ cfg[1].is_local
    /\ cefBrowser[1] # NullObj
    /\ obj[cefBrowser[1]] = "live"

\* C2: with USE_QT_LOOP, where the calling thread can be the engine thread,
\* a synchronous call from that thread never waits: the thread is never
\* blocked on the completion event and no queued synchronous task names it
\* as its waiter.
C2_EngineThreadNeverWaits ==
    qtLoop =>
        /\ pc["main"] # "sync_wait"
        /\ \A k \in 1..Len(queue) :
               queue[k].k = "sync" => queue[k].t # "main"

\* C2's case: the engine thread has run the closure of a synchronous call at
\* once, with tasks still queued behind it.
C2_Witness ==
    /\ qtLoop
    /\ ev = "inline_fn"
    /\ pc["main"] = "db_null"
    /\ queue # <<>>

\* C3: the closure of a synchronous call is never invoked with a handle
\* whose engine object has already been closed.
C3_SyncFuncNeverOnClosed ==
    ev \notin {"sync_fn_closed", "inline_fn_closed"}

\* C4: every queued asynchronous closure carries a non-null handle, the one
\* the instance held when the call captured it.
C4_AsyncHandleAsCaptured ==
    \A k \in 1..Len(queue) :
        queue[k].k = "async" =>
            queue[k].b # NullObj /\ queue[k].b = queue[k].cap

\* C5: no thread other than the engine thread operates on an engine object.
C5_OnlyEngineThreadTouches ==
    ev # "direct_off_engine"

\* C6: whenever the engine queue is empty, every engine object created and
\* not yet closed is the handle of an instance.
C6_NoUnclosedObjectDropped ==
    queue = <<>> =>
        \A o \in Objs : obj[o] = "live" => \E i \in Insts : cefBrowser[i] = o

\* C7: when no constructor and no destructor is in progress, the list
\* reachable from first_browser holds exactly the constructed and not yet
\* destroyed instances, each once, and each node's back-reference names the
\* link slot that holds the node.
C7_RegistryExact ==
    (\A i \in Insts : life[i] \in {"free", "live"}) =>
        /\ Len(RegistryList) = Cardinality({i \in Insts : life[i] = "live"})
        /\ {RegistryList[k] : k \in 1..Len(RegistryList)}
               = {i \in Insts : life[i] = "live"}
        /\ \A k \in 1..Len(RegistryList) :
               p_prev_next[RegistryList[k]]
                   = IF k = 1 THEN FirstSlot ELSE RegistryList[k - 1]

\* C7's case: two instances registered, the second by a construction that
\* has just finished.
C7_Witness ==
    /\ ev = "constructed"
    /\ \A i \in Insts : life[i] = "live"
    /\ Len(RegistryList) = NInst

\* SetShowing(false) of C8 has been called (line 758).
Hiding ==
    /\ pc[Control] \in {"ea_cap", "ea_enq"}
    /\ loc[Control].fn = "close"
    /\ loc[Control].ret2 = "idle"
    /\ loc[Control].i = 1
    /\ cfg[1].shutdown

\* Its DestroyBrowser(true) has read the handle o (line 123).
HidingWith(o) ==
    /\ Hiding
    /\ pc[Control] = "ea_enq"
    /\ loc[Control].b = o

\* SetShowing(true) of C8 has been called.
ShowingAgain ==
    /\ pc[Control] = "ea_cap"
    /\ loc[Control].fn = "close"
    /\ loc[Control].ret2 = "upd_tail"
    /\ loc[Control].v
    /\ loc[Control].i = 1
    /\ cfg[1].shutdown

\* C8: for an instance that shuts down when hidden, with a queue that
\* accepts and an engine thread that runs, SetShowing(false) leads to a null
\* handle and to the object it held being closed; SetShowing(true) leads to
\* create_browser set, and create_browser set leads to a non-null handle.
C8_HideThenShow ==
    /\ Hiding ~> (cefBrowser[1] = NullObj)
    /\ \A o \in Objs : HidingWith(o) ~> (obj[o] = "closed")
    /\ ShowingAgain ~> create_browser[1]
    /\ (cfg[1].shutdown /\ create_browser[1]) ~> (cefBrowser[1] # NullObj)

\* C8's case: the instance was hidden, its handle is null and the object it
\* held is closed, and SetShowing(true) has been called.
C8_Witness ==
    /\ ShowingAgain
    /\ cefBrowser[1] = NullObj
    /\ obj[1] = "closed"
    /\ queue = <<>>

\* The closure of a synchronous call was run / was skipped by the last step.
SyncRan == {"sync_fn", "sync_fn_closed", "inline_fn", "inline_fn_closed"}

SyncSkipped == {"sync_skip", "inline_skip"}

\* C9: when the teardown closure of a synchronous DestroyBrowser runs, the
\* object the instance holds is closed, and line 220 leaves the handle null;
\* with a null handle (a second Destroy, or no object ever) the closure is
\* skipped, no object is closed, nothing fails, and the instance is left as
\* it was.
C9_DestroyIdempotent ==
    [][/\ ev' \in SyncRan =>
            \E t \in Threads :
                /\ pc'[t] = "db_null"
                /\ cefBrowser[loc'[t].i] # NullObj
                /\ obj'[cefBrowser[loc'[t].i]] = "closed"
       /\ ev' \in SyncSkipped =>
            \E t \in Threads :
                /\ pc'[t] = "db_null"
                /\ cefBrowser[loc'[t].i] = NullObj
                /\ UNCHANGED <<obj, cfg, cefBrowser, create_browser,
                               is_showing, first_update, life, crashed>>
       /\ \A t \in Threads :
            (DestroyBrowserNull(t) /\ loc[t].ret = "idle") =>
                /\ cefBrowser'[loc[t].i] = NullObj
                /\ cefBrowser[loc[t].i] = NullObj =>
                       UNCHANGED <<obj, cfg, cefBrowser, create_browser,
                                   is_showing, first_update, life, crashed>>
      ]_vars

\* C9's case: a Destroy finds the handle null after an object was closed,
\* and skips its closure.
C9_Witness ==
    /\ ev \in SyncSkipped
    /\ pc[Control] = "db_null"
    /\ loc[Control].i = 1
    /\ cefBrowser[1] = NullObj
    /\ \E o \in Objs : obj[o] = "closed"

\* C10: a rejected synchronous submission leaves the queue and the objects
\* as they were and the caller goes on to line 220 without waiting; a
\* rejected asynchronous submission leaves them as they were and the caller
\* goes on; nothing fails; and a thread waits for the completion event only
\* while its task is queued.
C10_RejectedSubmission ==
    /\ [][/\ ev' = "sync_rejected" =>
               /\ \E t \in Threads : pc[t] = "idle" /\ pc'[t] = "db_null"
               /\ \A t \in Threads : pc'[t] = "sync_wait" => pc[t] = "sync_wait"
               /\ UNCHANGED <<queue, obj, crashed>>
          /\ ev' = "async_rejected" =>
               /\ \E t \in Threads :
                      pc[t] \in {"ea_enq", "js_enq"} /\ pc'[t] # pc[t]
               /\ UNCHANGED <<queue, obj, crashed>>
         ]_vars
    /\ [](\A t \in Threads :
            pc[t] = "sync_wait" =>
                \E k \in 1..Len(queue) :
                    queue[k].k = "sync" /\ queue[k].t = t)

\* C10's case: the queue has refused the teardown task of an instance that
\* holds a live object, and the caller is at line 220.
C10_Witness ==
    /\ ev = "sync_rejected"
    /\ pc[Control] = "db_null"
    /\ cefBrowser[loc[Control].i] # NullObj
    /\ obj[cefBrowser[loc[Control].i]] = "live"

C12_AsyncInSubmissionOrder ==
    /\ [][queue' # queue =>
            \/ queue # <<>> /\ queue' = Tail(queue)
            \/ Len(queue') = Len(queue) + 1
               /\ SubSeq(queue', 1, Len(queue)) = queue]_vars
    /\ [](\A j \in 1..Len(queue), k \in 1..Len(queue) :
            (/\ j < k
             /\ queue[j].k = "async" /\ queue[k].k = "async"
             /\ queue[j].b # NullObj
             /\ queue[j].b = queue[k].b)
            => queue[j].fn # "close")

\* C12's case: an input event and then the teardown of the same object are
\* queued, in that order.
C12_Witness ==
    /\ Len(queue) = 2
    /\ queue[1].k = "async" /\ queue[1].fn = "msg"
    /\ queue[2].k = "async" /\ queue[2].fn = "close"
    /\ queue[1].b = queue[2].b

\* The queue after the step is the queue before it, or that with one message
\* task for the handle b added at its end.
AtMostOneTaskFor(b) ==
    \/ queue' = queue
    \/ /\ Len(queue') = Len(queue) + 1
       /\ SubSeq(queue', 1, Len(queue)) = queue
       /\ queue'[Len(queue')].k = "async"
       /\ queue'[Len(queue')].fn = "msg"
       /\ queue'[Len(queue')].cap = b

\* C13: a broadcast walks, holding the registry lock, exactly the registered
\* instances, each once; for each it submits one message task if the handle
\* it read under the lock is non-null (none if the queue refuses it) and none if it is
\* null.  With a target, the lock is held and at most one task is submitted,
\* for the handle of the target.
C13_DispatchScope ==
    [][\A t \in Threads :
        /\ (ExecuteOnAllBrowsersVisit(t) /\ loc[t].i = NullInst) =>
               loc[t].seen = RegistryList
        /\ (ExecuteOnAllBrowsersVisit(t) /\ loc[t].i # NullInst) =>
               /\ mtx = t
               /\ loc'[t].b = cefBrowser[loc[t].i]
        /\ ExecuteOnAllBrowsersSubmit(t) =>
               /\ mtx = t
               /\ loc[t].b = NullObj => queue' = queue
               /\ AtMostOneTaskFor(loc[t].b)
               /\ ev' = "none" => Len(queue') = Len(queue) + 1
        /\ (AsyncCapture(t) /\ pc[t] = "js_cap") =>
               /\ mtx' = t
               /\ loc'[t].b = cefBrowser[loc[t].i]
        /\ (AsyncSubmit(t) /\ pc[t] = "js_enq") =>
               /\ mtx = t
               /\ loc[t].b = NullObj => queue' = queue
               /\ AtMostOneTaskFor(loc[t].b)
      ]_vars

\* C13's case: a broadcast over two registered instances, the first visited
\* with a null handle and the second with a live object, has just ended
\* with one task queued.
C13_Witness ==
    /\ ev = "broadcast_done"
    /\ Len(RegistryList) = NInst
    /\ cefBrowser[RegistryList[1]] = NullObj
    /\ cefBrowser[RegistryList[2]] # NullObj
    /\ Len(queue) = 1
    /\ queue[1].fn = "msg"
    /\ queue[1].b = cefBrowser[RegistryList[2]]

\* C14: a key closure that ran on an engine object sent it two key events
\* if the text is not empty and key_up is false, a raw key-down and then a
\* character event with the first wide character of the text and the code
\* that character translates to; otherwise it sent one event, a key-up if
\* key_up is true and a raw key-down if not.
C14_KeyClickEvents ==
    delivered.o # NullObj =>
        LET a == delivered.arg
            e == delivered.events
        IN IF a.text # <<>> /\ ~a.key_up
           THEN /\ Len(e) = 2
                /\ e[1].type = "KEYEVENT_RAWKEYDOWN"
                /\ e[2].type = "KEYEVENT_CHAR"
                /\ to_wide(a.text) # <<>> =>
                       e[2].character = to_wide(a.text)[1]
                /\ e[2].windows_key_code =
                       IF linux
                       THEN KeyboardCodeFromXKeysym(KeysymOfChar(e[2].character))
                       ELSE e[2].character
           ELSE /\ Len(e) = 1
                /\ e[1].type = IF a.key_up THEN "KEYEVENT_KEYUP"
                               ELSE "KEYEVENT_RAWKEYDOWN"

\* C14's case: the key closure for the text "a" with key_up false has run on
\* a live object, on Linux, and sent the raw key-down and the character a.
C14_Witness ==
    /\ linux
    /\ delivered.o # NullObj
    /\ obj[delivered.o] = "live"
    /\ delivered.arg.text = <<97>>
    /\ ~delivered.arg.key_up
    /\ Len(delivered.events) = 2
    /\ delivered.events[2].character = 97
    /\ delivered.events[2].windows_key_code = VKEY_A

\* C15: while an instance's first Update runs with no settings, no step of
\* the calling thread changes the instance's configuration, its handle or
\* its create_browser, and none adds a teardown task to the queue.
C15_FirstNullUpdateDefers ==
    [][\A t \in Threads :
           (loc[t].absent /\ first_update[loc[t].i] /\ pc'[t] # pc[t]) =>
               LET i == loc[t].i
               IN /\ cfg'[i] = cfg[i]
                  /\ cefBrowser'[i] = cefBrowser[i]
                  /\ create_browser'[i] = create_browser[i]
                  /\ Len(queue') > Len(queue) =>
                         queue'[Len(queue')].fn # "close"]_vars

\* C16: KeyboardCodeFromXKeysym returns a code for every key symbol, and
\* VKEY_UNKNOWN, which is 0, for every key symbol with no case label.
C16_TranslationTotal ==
    vkey.keysym # "none" =>
        /\ vkey.code \in 0..255
        /\ vkey.keysym \notin MappedKeysyms =>
               vkey.code = VKEY_UNKNOWN /\ vkey.code = 0

\* C16's case: a key symbol with no case label has been translated.
C16_Witness ==
    /\ vkey.keysym = "XK_eacute"
    /\ vkey.code = VKEY_UNKNOWN

\* C17: no Update fails in the normalization of its settings, whatever the
\* local-file path.
C17_NormalizationNeverFails ==
    ev # "update_threw"

\* The separators of a path, and the slashes of a normalized url after its
\* first eight characters.
Separators(path) ==
    Cardinality({k \in 1..Len(path) : path[k] \in {"/", "\\"}})

SlashesAfterScheme(u) ==
    Cardinality({k \in 9..Len(u) : u[k] = "/"})

\* u starts with file:///, has a literal colon where path has its drive
\* colon, holds no backslash, no %5C and no %2F, and as many slashes after
\* file:/// as path has separators.
WindowsFileUri(path, u) ==
    /\ Len(u) >= 8
    /\ SubSeq(u, 1, 8) = <<"f", "i", "l", "e", ":", "/", "/", "/">>
    /\ \A k \in 1..Len(path) :
           (path[k] = ":" /\ \A j \in 1..(k - 1) : EscapeChar(path[j]) = <<path[j]>>) =>
               Len(u) >= 8 + k /\ u[8 + k] = ":"
    /\ \A k \in 1..Len(u) : u[k] # "\\"
    /\ Find(u, <<"%", "5", "C">>) = npos
    /\ Find(u, <<"%", "2", "F">>) = npos
    /\ SlashesAfterScheme(u) = Separators(path)
    /\ path = ClipPath =>
           u = <<"f", "i", "l", "e", ":", "/", "/", "/", "C", ":", "/",
                 "c", "l", "i", "p", ".", "w", "e", "b", "m">>

EventsNamed(visibleName, activeName) ==
    /\ \A i \in Insts, v \in BOOLEAN :
           (SetShowing(Control, i, v) /\ ~cfg[i].shutdown) =>
               loc'[Control].js =
                   [eventName |-> visibleName, jsonString |-> <<"visible", v>>]
    /\ \A i \in Insts, a \in BOOLEAN :
           SetActive(Control, i, a) =>
               loc'[Control].js =
                   [eventName |-> activeName, jsonString |-> <<"active", a>>]
    /\ (pc[Control] = "js_enq" /\ AsyncSubmit(Control) /\ queue' # queue) =>
           /\ Len(queue') = Len(queue) + 1
           /\ queue'[Len(queue')].arg = loc[Control].js
           /\ queue'[Len(queue')].cap = loc[Control].b

\* C19 as stated: the events are named "visibilityChanged" and
\* "activeChanged".
C19_EventNamesAsStated ==
    [][EventsNamed("visibilityChanged", "activeChanged")]_vars

\* C19, amended: SetShowing(v) on an instance that does not shut down while
\* hidden dispatches to the instance the event "obsSourceVisibleChanged"
\* with visible = v, and SetActive(a) the event "obsSourceActiveChanged" with
\* active = a; the task queued for the instance's engine object carries that
\* name and that payload.
C19_EventNames ==
    [][EventsNamed("obsSourceVisibleChanged", "obsSourceActiveChanged")]_vars

\* C19's case: the event of SetShowing(TRUE) has just been queued for the
\* object of instance 1.
C19_Witness ==
    /\ pc[Control] = "ss_direct"
    /\ loc[Control].v
    /\ queue # <<>>
    /\ queue[Len(queue)].arg =
           [eventName |-> "obsSourceVisibleChanged",
            jsonString |-> <<"visible", TRUE>>]
    /\ queue[Len(queue)].b = cefBrowser[1]
    /\ cefBrowser[1] # NullObj

\* What the creation task reads of the configuration: reroute_audio (line
\* 147), width and height (153-154), fps (173) and url (183).
UsedByCreate(c) ==
    [url |-> c.url, width |-> c.width, height |-> c.height, fps |-> c.fps,
     reroute |-> c.reroute]

\* The configurations an instance has after construction or after a whole
\* Update of SnapshotSettings.
Snapshots ==
    {InitCfg} \cup {Normalize(raw, win32, fileScheme) : raw \in SnapshotSettings}

\* C20: the url, width, height, fps and reroute_audio a creation task reads
\* are those of one snapshot.
C20_CreateUsesOneSnapshot ==
    [][RunCreate =>
           \E c \in Snapshots :
               UsedByCreate(cfg[Head(queue).i]) = UsedByCreate(c)]_vars

\* C21: when an Update whose normalized settings differ from the
\* configuration returns, the configuration is the normalized settings, the
\* handle is null, and create_browser is true, or, if the new configuration
\* has shutdown set and the instance is hidden, as it was.
C21_ChangingUpdateOnReturn ==
    [][(pc[Control] = "upd_tail" /\ ~loc[Control].absent
            /\ UpdateTail(Control)) =>
           LET i == loc[Control].i
           IN /\ cfg'[i] = lastNorm[i]
              /\ cefBrowser'[i] = NullObj
              /\ create_browser'[i] =
                     IF cfg'[i].shutdown /\ ~is_showing[i]
                     THEN create_browser[i] ELSE TRUE]_vars

\* C22: a Tick on an instance whose create_browser is false queues nothing;
\* on one whose create_browser is true it queues one creation task for the
\* instance and then clears create_browser, or, if the queue refuses the
\* task, returns with create_browser still true.  A creation task is queued
\* by no other step, and create_browser is cleared by no other step.
C22_TickCreatesWhenPending ==
    [][/\ \A i \in Insts :
              Tick(Control, i) =>
                  /\ create_browser' = create_browser
                  /\ IF ~create_browser[i]
                     THEN queue' = queue /\ pc'[Control] = "idle"
                     ELSE \/ /\ queue' = queue
                             /\ pc'[Control] = "idle"
                             /\ ev' = "create_rejected"
                          \/ /\ Len(queue') = Len(queue) + 1
                             /\ SubSeq(queue', 1, Len(queue)) = queue
                             /\ queue'[Len(queue')].k = "create"
                             /\ queue'[Len(queue')].i = i
                             /\ pc'[Control] = "tick_clr"
                             /\ loc'[Control].i = i
       /\ (pc[Control] = "tick_clr" /\ pc'[Control] # "tick_clr") =>
              /\ ~create_browser'[loc[Control].i]
              /\ pc'[Control] = "idle"
              /\ queue' = queue
       /\ (Len(queue') > Len(queue) /\ queue'[Len(queue')].k = "create") =>
              /\ pc[Control] = "idle"
              /\ pc'[Control] = "tick_clr"
              /\ create_browser[queue'[Len(queue')].i]
       /\ \A i \in Insts :
              (create_browser[i] /\ ~create_browser'[i]) =>
                  pc[Control] = "tick_clr" /\ loc[Control].i = i]_vars

\* C22's case: the queue has refused a creation task and create_browser is
\* still set, with no creation task queued.
C22_Witness ==
    /\ ev = "create_rejected"
    /\ pc[Control] = "idle"
    /\ create_browser[1]
    /\ \A k \in 1..Len(queue) : queue[k].k # "create"

\* The call of SetActive, Refresh, an input call, or SetShowing on an
\* instance whose shutdown_on_invisible is false.
NotificationCall ==
    \/ \E i \in Insts, active \in BOOLEAN : SetActive(Control, i, active)
    \/ \E i \in Insts : Refresh(Control, i)
    \/ \E i \in Insts : SendInput(Control, i)
    \/ \E i \in Insts, v \in BOOLEAN :
           SetShowing(Control, i, v) /\ ~cfg[i].shutdown

\* A later step of such a call: a submission of its closure or of its event,
\* or line 780.
NotificationStep ==
    /\ pc[Control] \in {"ea_enq", "js_cap", "js_enq", "ss_direct"}
    /\ loc[Control].fn # "close"
    /\ pc'[Control] # pc[Control]

\* C23: no step of SetActive, Refresh, an input call, or SetShowing without
\* shutdown_on_invisible changes a handle, create_browser or the
\* configuration, and none queues a teardown closure.
C23_NotificationsKeepLifecycle ==
    [][(NotificationCall \/ NotificationStep) =>
           /\ cefBrowser' = cefBrowser
           /\ create_browser' = create_browser
           /\ cfg' = cfg
           /\ loc'[Control].fn # "close"
           /\ \/ queue' = queue
              \/ /\ Len(queue') = Len(queue) + 1
                 /\ SubSeq(queue', 1, Len(queue)) = queue
                 /\ queue'[Len(queue')].fn # "close"]_vars

\* C23's case: SetShowing(FALSE) without shutdown_on_invisible has queued
\* its message and its event for the live object of instance 1, which is
\* still the handle.
C23_Witness ==
    /\ pc[Control] = "ss_direct"
    /\ ~loc[Control].v
    /\ ~cfg[1].shutdown
    /\ cefBrowser[1] # NullObj
    /\ obj[cefBrowser[1]] = "live"
    /\ Len(queue) = 2
    /\ queue[1].fn = "msg" /\ queue[2].fn = "msg"
    /\ queue[2].arg = JSEvent("obsSourceVisibleChanged", "visible", FALSE)

\* C24: with the host thread in no operation, the queue empty and the
\* handle of instance 1 not null, the visibility last sent to the handle's
\* object is is_showing.
C24_VisibilityDelivered ==
    (pc[Control] = "idle" /\ queue = <<>> /\ cefBrowser[1] # NullObj) =>
        vis[cefBrowser[1]] = is_showing[1]

\* C25: while instance 1 has shutdown_on_invisible set and is hidden, with
\* the host thread in no operation and the queue empty, its handle is null.
C25_HiddenHasNoObject ==
    (/\ cfg[1].shutdown
     /\ ~is_showing[1]
     /\ pc[Control] = "idle"
     /\ queue = <<>>) =>
        cefBrowser[1] = NullObj

\* One live instance: the host thread updates, ticks and shows or hides it,
\* then destroys it; the engine thread runs what was queued.
NextTeardown ==
    \/ UpdateNull(Control, 1)
    \/ \E v \in BOOLEAN : SetShowing(Control, 1, v)
    \/ Tick(Control, 1)
    \/ Destructor(Control, 1)
    \/ UpdateTail(Control)
    \/ TickClear(Control)
    \/ SetShowingDirect(Control)
    \/ DestroyBrowserNull(Control)
    \/ AsyncCapture(Control)
    \/ AsyncSubmit(Control)
    \/ DestructorUnlink(Control)
    \/ DestructorStore(Control)
    \/ Engine

SpecTeardown == Init /\ [][NextTeardown]_vars

\* C26: no task that holds the instance (the creation task, the closure of
\* a synchronous call) runs on the engine thread once the destructor of the
\* instance has returned.
C26_NoTaskAfterDestructor ==
    [][(RunCreate \/ RunSync) => life[Head(queue).i] # "free"]_vars

\* Tasks the engine queue holds at once in SpecLock; a submission to a
\* full queue is refused.
MaxLockQueue == 1

LockQueueBound == Len(queue') <= MaxLockQueue

\* The steps of the thread t inside a construction, a destruction or a
\* dispatch, and those of the operations that give an instance its object.
HostStep(t) ==
    \/ ConstructorLink(t)
    \/ ConstructorFix(t)
    \/ ConstructorHead(t)
    \/ DestroyBrowserNull(t)
    \/ DestructorUnlink(t)
    \/ DestructorStore(t)
    \/ AsyncCapture(t)
    \/ AsyncSubmit(t) /\ LockQueueBound
    \/ ExecuteOnAllBrowsersLock(t)
    \/ ExecuteOnAllBrowsersVisit(t)
    \/ ExecuteOnAllBrowsersSubmit(t) /\ LockQueueBound
    \/ UpdateTail(t)
    \/ TickClear(t)

\* The host thread constructs and destroys instances, and updates and ticks
\* the first, while "gfx" dispatches events to one instance or to all.
NextLock ==
    \/ \E i \in Insts : Constructor(Control, i)
    \/ UpdateNull(Control, 1)
    \/ Tick(Control, 1) /\ LockQueueBound
    \/ \E i \in Insts : Destructor(Control, i) /\ LockQueueBound
    \/ \E browser \in Insts \cup {NullInst} : DispatchJSEvent("gfx", browser)
    \/ \E t \in Threads : HostStep(t)
    \/ Engine

\* Both threads go on with what they have started; nothing is asked of the
\* engine thread.
SpecLock ==
    InitReg /\ [][NextLock]_vars /\ \A t \in Threads : WF_vars(HostStep(t))

\* C27: no thread waits for the engine thread inside RunSync while it
\* holds the registry lock, and a thread that has taken the registry lock
\* releases it whatever the engine thread does, as long as the process
\* lives.
C27_LockNeverHeldAcrossWait ==
    /\ [](\A t \in Threads : pc[t] = "sync_wait" => mtx # t)
    /\ \A t \in Threads : (mtx = t) ~> (mtx # t \/ crashed)

\* A destructor waits for the engine thread while the other thread holds
\* the registry lock.
C27_Witness ==
    /\ pc[Control] = "sync_wait"
    /\ life[loc[Control].i] = "dtor"
    /\ mtx = "gfx"

=============================================================================
